---- MODULE Spec2Model ----
(***************************************************************************)
(* Verification model of the OER article pipeline (package oer_scraper):   *)
(* the fetcher make_request, the checkpoint table articles_parsed.csv and  *)
(* the entry points that write it.                                         *)
(***************************************************************************)
EXTENDS Integers, Sequences, FiniteSets, TLC

(***************************************************************************)
(* Fetcher: make_request                                                   *)
(***************************************************************************)

\* default of the max_retries parameter; no caller passes another value
DefaultMaxRetries == 3

\* outcome of session.get that raised requests.exceptions.RequestException
ConnErr == 0

\* what one session.get can produce: a status code or a raised RequestException
Responses == {200, 403, 404, 429, 500, ConnErr}

RateLimitBase == 10
ConnErrBase == 5

\* the local state of one make_request call
\*   attempt  : loop variable of `for attempt in range(max_retries)`
\*   requests : session.get calls issued
\*   delays   : random_delay calls taken
\*   slept    : the delay the last random_delay call drew, in milliseconds
\*   waits    : the time.sleep backoff waits taken, in order
\*   waited   : TRUE when the last iteration ended in a backoff wait
\*   last     : the response of the last iteration; resps: all of them in order
\*   ret      : "pending" while the loop runs, "response" or "none" once returned
\*   exit     : the return site taken
MRStart(max_retries) ==
  [attempt |-> 0, max |-> max_retries, requests |-> 0, delays |-> 0,
   slept |-> 0, waits |-> <<>>, waited |-> FALSE, last |-> -1, resps |-> <<>>,
   ret |-> "pending", exit |-> "-"]

\* a loop that admits one attempt too many (range(max_retries + 1))
MRLoopEndOneMore(st) ==
  IF st.ret = "pending" /\ st.attempt > st.max
    THEN [st EXCEPT !.ret = "none", !.exit = "exhausted"]
    ELSE st

\* leaving the for loop (range(max_retries) is used up): log the failure and
\* return None
MRLoopEnd(st) ==
  IF st.ret = "pending" /\ st.attempt >= st.max
    THEN [st EXCEPT !.ret = "none", !.exit = "exhausted"]
    ELSE st

\* an iteration that gives up on 429 as it does on 403 and 404
MRIterate429Terminal(st, r) ==
  LET s1 == [st EXCEPT !.delays = @ + 1, !.requests = @ + 1, !.last = r,
                       !.resps = Append(@, r), !.waited = FALSE]
  IN  MRLoopEnd(
        IF r = 200 THEN [s1 EXCEPT !.ret = "response", !.exit = "ok"]
        ELSE IF r \in {403, 404, 429} THEN [s1 EXCEPT !.ret = "none", !.exit = "terminal"]
        ELSE IF r = ConnErr
          THEN IF st.attempt < st.max - 1
                 THEN [s1 EXCEPT !.waits = Append(@, ConnErrBase * (st.attempt + 1)),
                                 !.waited = TRUE, !.attempt = @ + 1]
                 ELSE [s1 EXCEPT !.attempt = @ + 1]
        ELSE [s1 EXCEPT !.attempt = @ + 1])

\* an iteration that handles 403/404 like any other non-200 status
MRIterateRetry4xx(st, r) ==
  LET s1 == [st EXCEPT !.delays = @ + 1, !.requests = @ + 1, !.last = r,
                       !.resps = Append(@, r), !.waited = FALSE]
  IN  MRLoopEnd(
        IF r = 200 THEN [s1 EXCEPT !.ret = "response", !.exit = "ok"]
        ELSE IF r = 429
          THEN [s1 EXCEPT !.waits = Append(@, RateLimitBase * (st.attempt + 1)),
                          !.waited = TRUE, !.attempt = @ + 1]
        ELSE IF r = ConnErr
          THEN IF st.attempt < st.max - 1
                 THEN [s1 EXCEPT !.waits = Append(@, ConnErrBase * (st.attempt + 1)),
                                 !.waited = TRUE, !.attempt = @ + 1]
                 ELSE [s1 EXCEPT !.attempt = @ + 1]
        ELSE [s1 EXCEPT !.attempt = @ + 1])

\* one iteration of the for loop of MLReadyScraper.make_request that gets response r
\* (random_delay, session.get, the status branches, the except clause),
\* followed by the loop exit when it was the last iteration
MRIterate(st, r) ==
  LET s1 == [st EXCEPT !.delays = @ + 1, !.requests = @ + 1, !.last = r,
                       !.resps = Append(@, r), !.waited = FALSE]
  IN  MRLoopEnd(
        IF r = 200 THEN [s1 EXCEPT !.ret = "response", !.exit = "ok"]
        ELSE IF r \in {403, 404} THEN [s1 EXCEPT !.ret = "none", !.exit = "terminal"]
        ELSE IF r = 429
          THEN [s1 EXCEPT !.waits = Append(@, RateLimitBase * (st.attempt + 1)),
                          !.waited = TRUE, !.attempt = @ + 1]
        ELSE IF r = ConnErr
          THEN IF st.attempt < st.max - 1
                 THEN [s1 EXCEPT !.waits = Append(@, ConnErrBase * (st.attempt + 1)),
                                 !.waited = TRUE, !.attempt = @ + 1]
                 ELSE [s1 EXCEPT !.attempt = @ + 1]
        ELSE [s1 EXCEPT !.attempt = @ + 1])

\* the same iteration in NatureRequestsScraper.make_request, which tests 403
\* and 404 in two branches
MRIterateNR(st, r) ==
  LET s1 == [st EXCEPT !.delays = @ + 1, !.requests = @ + 1, !.last = r,
                       !.resps = Append(@, r), !.waited = FALSE]
  IN  MRLoopEnd(
        IF r = 200 THEN [s1 EXCEPT !.ret = "response", !.exit = "ok"]
        ELSE IF r = 403 THEN [s1 EXCEPT !.ret = "none", !.exit = "terminal"]
        ELSE IF r = 404 THEN [s1 EXCEPT !.ret = "none", !.exit = "terminal"]
        ELSE IF r = 429
          THEN [s1 EXCEPT !.waits = Append(@, RateLimitBase * (st.attempt + 1)),
                          !.waited = TRUE, !.attempt = @ + 1]
        ELSE IF r = ConnErr
          THEN IF st.attempt < st.max - 1
                 THEN [s1 EXCEPT !.waits = Append(@, ConnErrBase * (st.attempt + 1)),
                                 !.waited = TRUE, !.attempt = @ + 1]
                 ELSE [s1 EXCEPT !.attempt = @ + 1]
        ELSE [s1 EXCEPT !.attempt = @ + 1])

\* the whole call over the answers the source gives to its successive requests
RECURSIVE MRRun(_, _, _)
MRRun(w, st, script) ==
  IF st.ret # "pending" \/ script = <<>> THEN st
  ELSE MRRun(w, IF w = "nr" THEN MRIterateNR(st, Head(script))
                            ELSE MRIterate(st, Head(script)),
             Tail(script))

make_request(w, script) == MRRun(w, MRStart(DefaultMaxRetries), script)


(***************************************************************************)
(* The source: listing pages and article pages                             *)
(***************************************************************************)

MaxPages == 2       \* config.MAX_PAGES of the runs explored
MaxCands == 2       \* longest candidate list a listing page yields
MaxRuns == 2        \* program runs explored one after the other

Slugs == {"a", "b"}

\* the candidate URLs https://www.nature.com/articles/<slug>
Urls == [slug : Slugs]

\* re.search(r'articles/([^/?]+)', url).group(1)
extract_doi_from_url(u) == u.slug

\* the DOI a <meta name="citation_doi"> of an article page can carry; "" is
\* the tag without content
MetaDoi == "10.1038/x"
NoMeta == "-"

\* what the source serves for an article URL
\*   up      : the request is answered 200 (within the retries of make_request)
\*   article : the text contains "article"
\*   content : the text contains "content"
\*   long    : extract_main_text yields at least 200 characters
\*   meta    : the citation_doi meta tag: NoMeta, "" or a DOI
\*   pay     : the text contains one of the pay_phrases of paywall_detection
Page(up, article, content, long, meta, pay) ==
  [up |-> up, article |-> article, content |-> content, long |-> long,
   meta |-> meta, pay |-> pay]

PageKinds ==
  {Page(FALSE, FALSE, FALSE, FALSE, NoMeta, FALSE),
   Page(TRUE, FALSE, FALSE, FALSE, NoMeta, FALSE),
   Page(TRUE, FALSE, TRUE, FALSE, NoMeta, FALSE),
   Page(TRUE, TRUE, TRUE, FALSE, NoMeta, FALSE),
   Page(TRUE, TRUE, TRUE, TRUE, NoMeta, FALSE),
   Page(TRUE, TRUE, TRUE, TRUE, NoMeta, TRUE),
   Page(TRUE, TRUE, TRUE, TRUE, "", FALSE),
   Page(TRUE, TRUE, TRUE, TRUE, MetaDoi, FALSE)}

Unknown == Page(FALSE, FALSE, FALSE, FALSE, "?", FALSE)

\* candidate lists without repetition, as extract_article_urls_from_search
\* returns them (full_url not in urls)
CandLists ==
  {s \in UNION {[1..n -> Urls] : n \in 0..MaxCands} :
     \A i, j \in DOMAIN s : i # j => s[i] # s[j]}

\* what the source serves for a listing page
\*   up : the listing request is answered 200 within the retries
\*   urls : the candidate URLs of the page
\*   noresults : the page text contains "no results"
ListingKinds ==
  {[up |-> FALSE, urls |-> <<>>, noresults |-> FALSE]}
  \cup [up : {TRUE}, urls : {<<>>}, noresults : BOOLEAN]
  \cup [up : {TRUE}, urls : CandLists \ {<<>>}, noresults : {FALSE}]

UnknownListing == [up |-> FALSE, urls |-> <<>>, noresults |-> TRUE]

\* the answers the source gives to the successive requests of one call
\* (the same answer to every request, or a transient failure and then 200)
Scripts ==
  {[i \in 1..DefaultMaxRetries |-> r] : r \in Responses}
  \cup {<<429, 200, 200>>, <<ConnErr, 500, 200>>}

(***************************************************************************)
(* The table: pandas frames and the CSV file                               *)
(***************************************************************************)

\* the float NaN pandas puts where a CSV cell is empty
NaN == "NaN"

\* pd.read_csv: an empty cell is read as NaN
ReadCell(c) == IF c = "" THEN NaN ELSE c

\* DataFrame.to_csv: NaN and the empty string are both written as an empty cell
WriteCell(v) == IF v = NaN \/ v = "" THEN "" ELSE v

read_csv(file) == [i \in DOMAIN file |-> [file[i] EXCEPT !.doi = ReadCell(@)]]

to_csv(df) == [i \in DOMAIN df |-> [df[i] EXCEPT !.doi = WriteCell(@)]]

\* the subsequence of s at the positions in keep
RECURSIVE SelectIdx(_, _, _)
SelectIdx(s, keep, i) ==
  IF i > Len(s) THEN <<>>
  ELSE (IF i \in keep THEN <<s[i]>> ELSE <<>>) \o SelectIdx(s, keep, i + 1)

\* df.drop_duplicates(subset=['doi'], keep='first')
drop_duplicates_first(df) ==
  SelectIdx(df, {i \in DOMAIN df : \A j \in 1..(i - 1) : df[j].doi # df[i].doi}, 1)

\* df.drop_duplicates(subset=['doi'], keep='last')
drop_duplicates_last(df) ==
  SelectIdx(df, {i \in DOMAIN df : \A j \in (i + 1)..Len(df) : df[j].doi # df[i].doi}, 1)

\* the identifiers (doi cells) of a persisted table
Ids(file) == {file[i].doi : i \in DOMAIN file}

(***************************************************************************)
(* State                                                                   *)
(***************************************************************************)

VARIABLES
  mr,        \* the make_request call being stepped through, or Idle
  who,       \* the scraper whose make_request it is: "ml" or "nr"
  web,       \* the document the source serves for each article URL, once seen
  listing,   \* the document the source serves for each listing page, once seen
  csv,       \* config.METADATA_CSV: the rows of the file; <<>> when there is none
  raw,       \* config.RAW_DIR/*.html: file stem -> the page stored in it
  rawHtml,   \* config.RAW_DIR/html/<year>/<journal>/*.html: the stems stored
  prog,      \* the entry point that is running or ran last
  pc,        \* its position: "idle", "page", "cand", "final", "done"
  runs,      \* runs started so far
  data,      \* self.data, the in-memory records
  page,      \* page_num of the paging loop
  cands,     \* urls of the listing page being processed
  idx,       \* position in cands of the next candidate
  succ,      \* success_count of the page
  last,      \* the last candidate step: its URL, outcome and requests issued
  csv0,      \* the persisted table when the current run started
  prev,      \* how the run before the current one ended: "none", "killed" or its prog
  status,    \* exit status of the process of the last run: -1 while there is
             \* none, 0, 1 (sys.exit(1)), 130 (uncaught KeyboardInterrupt),
             \* 137 (killed)
  returned,  \* what the callers of make_request have got back so far: the
             \* value returned, with the return site and the last answer
  parsed,    \* the documents the parsers were given so far: the parser, the
             \* length of the text it extracted, and whether a record of the
             \* document went into the parser's output table
  classified,\* the text paywall_detection was last called with and what it
             \* returned; empty before the first call
  extracted, \* the text the overpotential extractors were last called with
             \* and what each returned; empty before the first call
  named,     \* the text the entity extractors were last called with and
             \* what each returned; empty before the first call
  called     \* the last call of one of the other pure functions: its name,
             \* its arguments and what it returned; empty before the first

vars == <<mr, who, web, listing, csv, raw, rawHtml, prog, pc, runs, data, page, cands,
          idx, succ, last, csv0, prev, status, returned, parsed, classified,
          extracted, named, called>>

fetchVars == <<mr, who, returned>>
probeVars == <<classified, extracted, named, called>>
parseVars == <<parsed, probeVars>>
worldVars == <<web, listing>>
runVars == <<csv, raw, rawHtml, prog, pc, runs, data, page, cands, idx, succ, last, csv0, prev,
            status>>

Idle == [ret |-> "idle"]
\* the URL of a listing request, and the URL of no request
ListingUrl == [slug |-> "search"]
NoUrl == [slug |-> "-"]
NoStep == [url |-> NoUrl, outcome |-> "-", requests |-> 0]

InitWith(table) ==
  /\ mr = Idle
  /\ who = "ml"
  /\ web = [u \in Urls |-> Unknown]
  /\ listing = [p \in 1..MaxPages |-> UnknownListing]
  /\ csv = table
  /\ raw = [s \in Slugs |-> Unknown]
  /\ rawHtml = {}
  /\ prog = "ml"
  /\ pc = "idle"
  /\ runs = 0
  /\ data = <<>>
  /\ page = 0
  /\ cands = <<>>
  /\ idx = 0
  /\ succ = 0
  /\ last = NoStep
  /\ csv0 = <<>>
  /\ prev = "none"
  /\ status = -1
  /\ returned = {}
  /\ parsed = {}
  /\ classified = {}
  /\ extracted = {}
  /\ named = {}
  /\ called = {}

\* a first start: no table, no file
Init == InitWith(<<>>)


(***************************************************************************)
(* Stepping through one make_request call                                  *)
(***************************************************************************)

\* what the caller of a finished call holds: the value returned (a Response
\* or None); exit and status are the return site and the last answer, which
\* the value does not carry
Returned(st) == [result |-> st.ret, exit |-> st.exit, status |-> st.last]

\* a caller enters make_request(url) with the default max_retries
MRCall ==
  /\ mr.ret # "pending"
  /\ \E w \in {"ml", "nr"} : who' = w
  /\ mr' = MRStart(DefaultMaxRetries)
  /\ UNCHANGED <<returned, parseVars, worldVars, runVars>>

\* config.REQUEST_DELAY (1.5 s), in milliseconds
REQUEST_DELAY == 1500

\* random.random() is drawn among the fractions 0/DelaySteps .. DelaySteps/DelaySteps
DelaySteps == 4

\* a random_delay that draws from [0, REQUEST_DELAY * 1.3]
random_delay_from_zero(u) == (((REQUEST_DELAY * 13) \div 10) * u) \div DelaySteps

\* random_delay: random.uniform(REQUEST_DELAY * 0.7, REQUEST_DELAY * 1.3), which
\* is a + (b - a) * random.random(), for the fraction u / DelaySteps
random_delay(u) ==
  LET a == (REQUEST_DELAY * 7) \div 10
      b == (REQUEST_DELAY * 13) \div 10
  IN  a + ((b - a) * u) \div DelaySteps

\* the call takes its random_delay, issues its next request and handles the
\* answer
MRAttempt ==
  /\ mr.ret = "pending"
  /\ \E r \in Responses, u \in 0..DelaySteps :
       mr' = [(IF who = "nr" THEN MRIterateNR(mr, r) ELSE MRIterate(mr, r))
                EXCEPT !.slept = random_delay(u)]
  /\ returned' = IF mr'.ret = "pending" THEN returned
                 ELSE returned \cup {Returned(mr')}
  /\ UNCHANGED <<who, parseVars, worldVars, runVars>>

NextFetch == MRCall \/ MRAttempt

SpecFetch == Init /\ [][NextFetch]_vars

FairFetch == SpecFetch /\ WF_vars(MRAttempt)

(***************************************************************************)
(* MLReadyScraper                                                          *)
(***************************************************************************)

\* the source answers a request for article URL u: what it served before, or
\* a page it serves from now on
Serves(u, k) == k \in PageKinds /\ (web[u] # Unknown => k = web[u])

ServesListing(p, l) == l \in ListingKinds /\ (listing[p] # UnknownListing => l = listing[p])

\* the scripts under which a call of scraper w ends as the source's state says
ScriptTable ==
  [w \in {"ml", "nr"}, up \in BOOLEAN |->
     {s \in Scripts : (make_request(w, s).ret = "response") = up}]

ScriptsFor(w, up) == ScriptTable[w, up]

\* an is_already_processed that finds no identifier, as the one of the
\* except branch
is_already_processed_never(file, doi) == FALSE

\* MLReadyScraper.is_already_processed(doi)
is_already_processed(file, doi) ==
  /\ file # <<>>
  /\ \E i \in DOMAIN file : ReadCell(file[i].doi) = doi

\* MLReadyParser.extract_metadata: the 'doi' entry
extract_metadata_doi(k, u) ==
  IF k.meta # NoMeta THEN k.meta ELSE extract_doi_from_url(u)

\* the names oer_scraper/config.py defines, among those the parsers read
ConfigNames ==
  {"PATTERNS", "CATALYST_KEYWORDS", "ELEMENTS", "COMPOUNDS", "MATERIAL_TYPES",
   "SUBSTRATE_KEYWORDS", "ELECTROLYTE_KEYWORDS", "CATALYST_PATTERNS",
   "SUBSTRATE_PATTERNS", "KEY_TERMS", "MIN_TEXT_LENGTH"}

\* the config names the feature extractors of MLReadyParser read, in the order
\* parse_single_article calls them: extract_element_counts,
\* extract_compound_presence, extract_material_properties,
\* extract_experimental_conditions, extract_performance_metrics
MLFeatureNames ==
  <<"ELEMENTS", "COMPOUNDS", "MATERIAL_TYPES", "MORPHOLOGIES", "SUBSTRATES",
    "ELECTROLYTES", "PERFORMANCE_TERMS">>

\* reading a name the config module does not define raises AttributeError,
\* which the try of parse_single_article turns into None
extract_features_raises ==
  \E i \in DOMAIN MLFeatureNames : MLFeatureNames[i] \notin ConfigNames

\* MLReadyParser.parse_single_article(html_path, url) over the stored page k:
\* <<>> for None (a short text, or an exception of an extractor), else the one
\* record. A record is
\*   url, doi : its 'url' and 'doi' columns
\*   by       : the entry point that made it (which other columns it has)
\*   pg       : the listing page its listing-derived columns were read from,
\*              0 when it has none
parse_single_article(k, u) ==
  IF ~k.long \/ extract_features_raises THEN <<>>
  ELSE <<[url |-> u, doi |-> extract_metadata_doi(k, u), by |-> "ml", pg |-> 0]>>

\* a save_progress that opens the table in append mode
save_progress_append(file, d) ==
  IF d # <<>> THEN file \o to_csv(drop_duplicates_last(d)) ELSE file

\* MLReadyScraper.save_progress: the file after it
save_progress(file, d) ==
  IF d # <<>> THEN to_csv(drop_duplicates_last(d)) ELSE file

\* a download_and_process_article that saves the progress whatever the
\* outcome of the candidate
saved_after_any(file, d, out) == save_progress(file, d)

\* the persisted table after download_and_process_article: save_progress is
\* called in the branch of a parsed record only
saved_after(file, d, out) ==
  IF out = "processed" THEN save_progress(file, d) ELSE file

\* an entry point p is started when no run is under way
Launch(p) ==
  /\ pc \in {"idle", "done"}
  /\ runs < MaxRuns
  /\ runs' = runs + 1
  /\ prev' = IF pc = "done" THEN prog ELSE IF runs = 0 THEN "none" ELSE "killed"
  /\ prog' = p
  /\ csv0' = csv
  /\ cands' = <<>>
  /\ idx' = 0
  /\ succ' = 0
  /\ last' = NoStep

\* MLReadyScraper.run up to the paging loop: load the previous progress
MLStart ==
  /\ Launch("ml")
  /\ data' = IF csv # <<>> THEN read_csv(csv) ELSE <<>>
  /\ page' = 1
  /\ pc' = "page"
  /\ status' = -1
  /\ UNCHANGED <<fetchVars, parseVars, worldVars, csv, raw, rawHtml>>

\* a paging loop that goes on to the next page after a failed page
AfterPageIgnoreFailure(success) ==
  IF page < MaxPages
    THEN /\ page' = page + 1
         /\ pc' = "page"
    ELSE /\ page' = page
         /\ pc' = "final"

\* a paging loop that does not advance: it asks for the same page again
AfterPageAgain(success) ==
  IF success
    THEN /\ page' = page
         /\ pc' = "page"
    ELSE /\ page' = page
         /\ pc' = "final"

\* the paging loop of run after scrape_search_page returned success
AfterPage(success) ==
  IF success /\ page < MaxPages
    THEN /\ page' = page + 1
         /\ pc' = "page"
    ELSE /\ page' = page
         /\ pc' = "final"

\* MLReadyScraper.scrape_search_page up to the candidate loop
MLPage ==
  /\ prog = "ml" /\ pc = "page"
  /\ \E l \in ListingKinds :
       /\ ServesListing(page, l)
       /\ listing' = [listing EXCEPT ![page] = l]
       /\ \E s \in ScriptsFor("ml", l.up) :
            last' = [url |-> ListingUrl, outcome |-> "-",
                     requests |-> make_request("ml", s).requests]
       /\ IF ~l.up THEN AfterPage(FALSE) /\ UNCHANGED <<cands, idx, succ>>
          ELSE IF l.urls = <<>>
            THEN AfterPage(~l.noresults) /\ UNCHANGED <<cands, idx, succ>>
          ELSE /\ cands' = l.urls
               /\ idx' = 1
               /\ succ' = 0
               /\ pc' = "cand"
               /\ page' = page
  /\ UNCHANGED <<fetchVars, parseVars, web, csv, raw, rawHtml, prog, runs, data, csv0, prev, status>>

\* the candidate loop of scrape_search_page after one candidate
AfterCand(success) ==
  LET n == IF success THEN succ + 1 ELSE succ
  IN  IF idx < Len(cands)
        THEN /\ idx' = idx + 1
             /\ succ' = n
             /\ pc' = "cand"
             /\ page' = page
        ELSE /\ idx' = 0
             /\ succ' = 0
             /\ AfterPage(n > 0)

\* MLReadyScraper.download_and_process_article(cands[idx]) and the loop step
\* of scrape_search_page around it
MLCand ==
  /\ prog = "ml" /\ pc = "cand"
  /\ LET u == cands[idx]
         doi == extract_doi_from_url(u)
     IN  IF is_already_processed(csv, doi)
           THEN /\ last' = [url |-> u, outcome |-> "already", requests |-> 0]
                /\ AfterCand(TRUE)
                /\ UNCHANGED <<web, csv, raw, data>>
           ELSE \E k \in PageKinds :
                  /\ Serves(u, k)
                  /\ web' = [web EXCEPT ![u] = k]
                  /\ \E s \in ScriptsFor("ml", k.up) :
                       LET rec == parse_single_article(k, u)
                           out == IF ~k.up THEN "nofetch"
                                  ELSE IF ~k.article THEN "notarticle"
                                  ELSE IF rec = <<>> THEN "noparse"
                                  ELSE "processed"
                       IN  /\ last' = [url |-> u, outcome |-> out,
                                       requests |-> make_request("ml", s).requests]
                           /\ raw' = IF k.up /\ k.article
                                       THEN [raw EXCEPT ![doi] = k] ELSE raw
                           /\ data' = data \o (IF out = "processed" THEN rec ELSE <<>>)
                           /\ csv' = saved_after(csv, data', out)
                           /\ AfterCand(out = "processed")
  /\ UNCHANGED <<fetchVars, parseVars, listing, rawHtml, prog, runs, cands, csv0, prev, status>>

\* the end of MLReadyScraper.run: the final save_progress
MLFinal ==
  /\ prog = "ml" /\ pc = "final"
  /\ csv' = save_progress(csv, data)
  /\ pc' = "done"
  /\ status' = 0
  /\ last' = NoStep
  /\ UNCHANGED <<fetchVars, parseVars, worldVars, raw, rawHtml, prog, runs, data, page,
                 cands, idx, succ, csv0, prev>>

\* the process is killed between two steps of a run; its memory is lost
Kill ==
  /\ pc \in {"page", "cand", "final"}
  /\ pc' = "idle"
  /\ data' = <<>>
  /\ cands' = <<>>
  /\ idx' = 0
  /\ succ' = 0
  /\ page' = 0
  /\ last' = NoStep
  /\ status' = 137
  /\ UNCHANGED <<fetchVars, parseVars, worldVars, csv, raw, rawHtml, prog, runs, csv0, prev>>

\* KeyboardInterrupt between two steps of a run. No except Exception clause
\* of the scrapers catches it. The mains of pipeline_ml_ready (MLReadyScraper)
\* and pipeline_oer (NatureRequestsScraper) catch it, log and return; the
\* standalone mains of the scrapers do not catch it. Nothing is saved on the
\* way out.
Interrupt ==
  /\ pc \in {"page", "cand", "final"}
  /\ pc' = "idle"
  /\ data' = <<>>
  /\ cands' = <<>>
  /\ idx' = 0
  /\ succ' = 0
  /\ page' = 0
  /\ last' = NoStep
  /\ status' \in (IF prog \in {"ml", "nr"} THEN {0, 130} ELSE {130})
  /\ UNCHANGED <<fetchVars, parseVars, worldVars, csv, raw, rawHtml, prog, runs, csv0, prev>>

Next == MLStart \/ MLPage \/ MLCand \/ MLFinal \/ Kill \/ Interrupt

Spec == Init /\ [][Next]_vars

(***************************************************************************)
(* NatureRequestsScraper                                                   *)
(***************************************************************************)

SaveBatch == 5

\* NatureRequestsScraper.save_progress: the file after it
save_progress_nr(file, d) ==
  IF d # <<>> THEN to_csv(drop_duplicates_first(d)) ELSE file

\* NatureRequestsScraper.run up to the paging loop: self.data stays empty,
\* existing_dois is read and not used
NRStart ==
  /\ Launch("nr")
  /\ data' = <<>>
  /\ page' = 1
  /\ pc' = "page"
  /\ status' = -1
  /\ UNCHANGED <<fetchVars, parseVars, worldVars, csv, raw, rawHtml>>

\* NatureRequestsScraper.scrape_search_page up to the candidate loop
NRPage ==
  /\ prog = "nr" /\ pc = "page"
  /\ \E l \in ListingKinds :
       /\ ServesListing(page, l)
       /\ listing' = [listing EXCEPT ![page] = l]
       /\ \E s \in ScriptsFor("nr", l.up) :
            last' = [url |-> ListingUrl, outcome |-> "-",
                     requests |-> make_request("nr", s).requests]
       /\ IF ~l.up THEN AfterPage(FALSE) /\ UNCHANGED <<cands, idx, succ>>
          ELSE IF l.urls = <<>>
            THEN AfterPage(~l.noresults) /\ UNCHANGED <<cands, idx, succ>>
          ELSE /\ cands' = l.urls
               /\ idx' = 1
               /\ succ' = 0
               /\ pc' = "cand"
               /\ page' = page
  /\ UNCHANGED <<fetchVars, parseVars, web, csv, raw, rawHtml, prog, runs, data, csv0, prev, status>>

\* one turn of the candidate loop of NatureRequestsScraper.scrape_search_page:
\* download_article_html, extract_metadata_from_listing, the batched save
NRCand ==
  /\ prog = "nr" /\ pc = "cand"
  /\ LET u == cands[idx]
         doi == extract_doi_from_url(u)
         rec == [url |-> u, doi |-> doi, by |-> "nr", pg |-> page]
     IN  IF raw[doi] # Unknown
           THEN /\ last' = [url |-> u, outcome |-> "cached", requests |-> 0]
                /\ data' = Append(data, rec)
                /\ csv' = IF (succ + 1) % SaveBatch = 0
                            THEN save_progress_nr(csv, data') ELSE csv
                /\ AfterCand(TRUE)
                /\ UNCHANGED <<web, raw>>
           ELSE \E k \in PageKinds :
                  /\ Serves(u, k)
                  /\ web' = [web EXCEPT ![u] = k]
                  /\ \E s \in ScriptsFor("nr", k.up) :
                       LET out == IF ~k.up THEN "nofetch"
                                  ELSE IF ~k.article /\ ~k.content THEN "notarticle"
                                  ELSE "downloaded"
                       IN  /\ last' = [url |-> u, outcome |-> out,
                                       requests |-> make_request("nr", s).requests]
                           /\ raw' = IF out = "downloaded"
                                       THEN [raw EXCEPT ![doi] = k] ELSE raw
                           /\ data' = IF out = "downloaded" THEN Append(data, rec)
                                      ELSE data
                           /\ csv' = IF out = "downloaded" /\ (succ + 1) % SaveBatch = 0
                                       THEN save_progress_nr(csv, data') ELSE csv
                           /\ AfterCand(out = "downloaded")
  /\ UNCHANGED <<fetchVars, parseVars, listing, rawHtml, prog, runs, cands, csv0, prev, status>>

\* the end of NatureRequestsScraper.run: the final save_progress
NRFinal ==
  /\ prog = "nr" /\ pc = "final"
  /\ csv' = save_progress_nr(csv, data)
  /\ pc' = "done"
  /\ status' = 0
  /\ last' = NoStep
  /\ UNCHANGED <<fetchVars, parseVars, worldVars, raw, rawHtml, prog, runs, data, page,
                 cands, idx, succ, csv0, prev>>

(***************************************************************************)
(* NatureRequestsScraper over long listing pages                           *)
(***************************************************************************)

\* A first run of NatureRequestsScraper, in an empty RAW_DIR, over listing
\* pages of up to MaxListed articles, every article listed once. What the
\* source serves is drawn anew at each request.

MaxListed == 5

\* the URL of the i-th article of listing page p
listed(p, i) == [slug |-> ToString(p) \o "-" \o ToString(i)]

\* the listing pages the source can serve for page p
LongListings(p) ==
  {[up |-> FALSE, urls |-> <<>>, noresults |-> FALSE]}
  \cup [up : {TRUE}, urls : {<<>>}, noresults : BOOLEAN]
  \cup {[up |-> TRUE, urls |-> [i \in 1..n |-> listed(p, i)], noresults |-> FALSE] :
          n \in 1..MaxListed}

\* NatureRequestsScraper.run up to the paging loop, for the first time
LongStart == runs = 0 /\ NRStart

\* NatureRequestsScraper.scrape_search_page up to the candidate loop
LongPage ==
  /\ prog = "nr" /\ pc = "page"
  /\ \E l \in LongListings(page) :
       /\ \E s \in ScriptsFor("nr", l.up) :
            last' = [url |-> ListingUrl, outcome |-> "-",
                     requests |-> make_request("nr", s).requests]
       /\ IF ~l.up THEN AfterPage(FALSE) /\ UNCHANGED <<cands, idx, succ>>
          ELSE IF l.urls = <<>>
            THEN AfterPage(~l.noresults) /\ UNCHANGED <<cands, idx, succ>>
          ELSE /\ cands' = l.urls
               /\ idx' = 1
               /\ succ' = 0
               /\ pc' = "cand"
               /\ page' = page
  /\ UNCHANGED <<fetchVars, parseVars, worldVars, csv, raw, rawHtml, prog, runs, data, csv0,
                 prev, status>>

\* one turn of the candidate loop of NatureRequestsScraper.scrape_search_page
\* for an article that has no file yet
LongCand ==
  /\ prog = "nr" /\ pc = "cand"
  /\ LET u == cands[idx]
         rec == [url |-> u, doi |-> extract_doi_from_url(u), by |-> "nr", pg |-> page]
     IN  \E k \in PageKinds :
           \E s \in ScriptsFor("nr", k.up) :
             LET out == IF ~k.up THEN "nofetch"
                        ELSE IF ~k.article /\ ~k.content THEN "notarticle"
                        ELSE "downloaded"
             IN  /\ last' = [url |-> u, outcome |-> out,
                             requests |-> make_request("nr", s).requests]
                 /\ data' = IF out = "downloaded" THEN Append(data, rec) ELSE data
                 /\ csv' = IF out = "downloaded" /\ (succ + 1) % SaveBatch = 0
                             THEN save_progress_nr(csv, data') ELSE csv
                 /\ AfterCand(out = "downloaded")
  /\ UNCHANGED <<fetchVars, parseVars, worldVars, raw, rawHtml, prog, runs, cands, csv0,
                 prev, status>>

NextLong == LongStart \/ LongPage \/ LongCand \/ NRFinal

SpecLong == Init /\ [][NextLong]_vars

(***************************************************************************)
(* run_parsing_only                                                        *)
(***************************************************************************)

\* the orders in which RAW_DIR.glob("*.html") can list the stored files
GlobOrders ==
  LET stems == {s \in Slugs : raw[s] # Unknown}
  IN  {o \in [1..Cardinality(stems) -> stems] :
         \A i, j \in DOMAIN o : i # j => o[i] # o[j]}

\* the loop of run_parsing_only over html_files
RECURSIVE ParseAll(_)
ParseAll(files) ==
  IF files = <<>> THEN <<>>
  ELSE parse_single_article(raw[Head(files)], [slug |-> Head(files)])
       \o ParseAll(Tail(files))

\* pipeline_ml_ready.run_parsing_only, from the glob to the to_csv
ParseOnly ==
  /\ Launch("parse")
  /\ \E files \in GlobOrders :
       LET all_data == ParseAll(files)
       IN  /\ data' = all_data
           /\ csv' = IF all_data # <<>> THEN to_csv(all_data) ELSE csv
  /\ pc' = "done"
  /\ status' = 0
  /\ page' = 0
  /\ UNCHANGED <<fetchVars, parseVars, worldVars, raw, rawHtml>>

(***************************************************************************)
(* scraper_nature.scrape_articles_metadata_and_html                        *)
(***************************************************************************)

\* the doi scrape_articles_metadata_and_html takes from the card of article u:
\* the text of the card's doi tag (a DOI, which ends in the slug of the
\* article URL) or, without the tag, the title with underscores. It is the
\* same on every card of the article and is not the slug of its URL.
CardDoi(u) == "10.1038/" \o u.slug

\* the characters of a Python str
Chars(s) == [i \in 1..Len(s) |-> SubSeq(s, i, i)]

\* the str of a sequence of characters
RECURSIVE Str(_)
Str(cs) == IF cs = <<>> THEN "" ELSE cs[1] \o Str(Tail(cs))

IsSpace(c) == c = " "

\* str.strip
strip(s) ==
  LET solid == {i \in DOMAIN s : ~IsSpace(s[i])}
  IN  IF solid = {} THEN <<>>
      ELSE SubSeq(s, CHOOSE i \in solid : \A j \in solid : i <= j,
                     CHOOSE i \in solid : \A j \in solid : i >= j)

\* utils.safe_filename_from_doi:
\* doi.replace("/", "_").replace(":", "_").strip() + ".html"
safe_filename_from_doi(doi) ==
  Str(strip([i \in DOMAIN Chars(doi) |->
               IF Chars(doi)[i] \in {"/", ":"} THEN "_" ELSE Chars(doi)[i]])) \o ".html"

\* utils.safe_request over the answer to its one request
safe_request(r) == r = 200

\* scrape_articles_metadata_and_html up to the paging loop: load the checkpoint
OerStart ==
  /\ Launch("oer")
  /\ data' = <<>>
  /\ page' = 1
  /\ pc' = "page"
  /\ status' = -1
  /\ UNCHANGED <<fetchVars, parseVars, worldVars, csv, raw, rawHtml>>

\* the paging loop of scrape_articles_metadata_and_html after a page
OerAfterPage ==
  IF page < MaxPages
    THEN /\ page' = page + 1
         /\ pc' = "page"
    ELSE /\ page' = page
         /\ pc' = "final"

\* one page of scrape_articles_metadata_and_html up to the card loop
OerPage ==
  /\ prog = "oer" /\ pc = "page"
  /\ \E l \in ListingKinds :
       /\ ServesListing(page, l)
       /\ listing' = [listing EXCEPT ![page] = l]
       /\ \E s \in ScriptsFor("ml", l.up) :
            /\ last' = [url |-> ListingUrl, outcome |-> "-", requests |-> 1]
            /\ IF ~safe_request(s[1]) \/ l.urls = <<>>
                 THEN OerAfterPage /\ UNCHANGED <<cands, idx>>
                 ELSE /\ cands' = l.urls
                      /\ idx' = 1
                      /\ pc' = "cand"
                      /\ page' = page
  /\ UNCHANGED <<fetchVars, parseVars, web, csv, raw, rawHtml, prog, runs, data, succ, csv0, prev, status>>

\* one turn of the card loop: the checkpoint test, download_html_if_allowed,
\* all_articles.append
OerCard ==
  /\ prog = "oer" /\ pc = "cand"
  /\ LET u == cands[idx]
         doi == CardDoi(u)
         df_metadata == read_csv(csv0)
         rec == [url |-> u, doi |-> doi, by |-> "oer", pg |-> page]
         step == IF idx < Len(cands)
                   THEN idx' = idx + 1 /\ pc' = "cand" /\ page' = page
                   ELSE idx' = 0 /\ OerAfterPage
     IN  /\ step
         /\ IF df_metadata # <<>> /\ \E i \in DOMAIN df_metadata : df_metadata[i].doi = doi
              THEN /\ last' = [url |-> u, outcome |-> "already", requests |-> 0]
                   /\ UNCHANGED <<web, rawHtml, data>>
            ELSE IF safe_filename_from_doi(doi) \in rawHtml
              THEN /\ last' = [url |-> u, outcome |-> "cached", requests |-> 0]
                   /\ data' = Append(data, rec)
                   /\ UNCHANGED <<web, rawHtml>>
            ELSE \E k \in PageKinds :
                   /\ Serves(u, k)
                   /\ web' = [web EXCEPT ![u] = k]
                   /\ \E s \in ScriptsFor("ml", k.up) :
                        LET out == IF ~safe_request(s[1]) THEN "nofetch"
                                   ELSE IF k.pay THEN "paywalled"
                                   ELSE "downloaded"
                        IN  /\ last' = [url |-> u, outcome |-> out, requests |-> 1]
                            /\ rawHtml' = IF out = "downloaded"
                                            THEN rawHtml \cup {safe_filename_from_doi(doi)}
                                            ELSE rawHtml
                            /\ data' = IF out = "downloaded" THEN Append(data, rec)
                                       ELSE data
  /\ UNCHANGED <<fetchVars, parseVars, listing, csv, raw, prog, runs, cands, succ, csv0, prev, status>>

\* the end of scrape_articles_metadata_and_html: concat and save_metadata_dataframe
OerFinal ==
  /\ prog = "oer" /\ pc = "final"
  /\ csv' = IF data # <<>> THEN to_csv(read_csv(csv0) \o data) ELSE csv
  /\ pc' = "done"
  /\ status' = 0
  /\ last' = NoStep
  /\ UNCHANGED <<fetchVars, parseVars, worldVars, raw, rawHtml, prog, runs, data, page,
                 cands, idx, succ, csv0, prev>>

\* the scrapers that load the table they find: MLReadyScraper and scraper_nature
NextScrapers ==
  \/ MLStart \/ MLPage \/ MLCand \/ MLFinal
  \/ OerStart \/ OerPage \/ OerCard \/ OerFinal
  \/ Kill \/ Interrupt

SpecScrapers == Init /\ [][NextScrapers]_vars

NextAll ==
  \/ MLStart \/ MLPage \/ MLCand \/ MLFinal
  \/ NRStart \/ NRPage \/ NRCand \/ NRFinal
  \/ ParseOnly
  \/ OerStart \/ OerPage \/ OerCard \/ OerFinal
  \/ Kill \/ Interrupt

SpecAll == Init /\ [][NextAll]_vars

\* MLReadyScraper.run left to itself: no kill, no interrupt, and every fetch
\* and sleep returns, so the run takes its next step
NextRun == MLStart \/ MLPage \/ MLCand \/ MLFinal

FairRun == Init /\ [][NextRun]_vars /\ WF_vars(NextRun)

\* the tables the runs of NatureRequestsScraper and of
\* scrape_articles_metadata_and_html leave behind: NatureRequestsScraper
\* writes its own records only, one per doi; scrape_articles_metadata_and_html
\* appends its records, repeated or not, to the rows it found
EarlierRows ==
  {[url |-> [slug |-> "a"], doi |-> "a", by |-> "nr", pg |-> 1],
   [url |-> [slug |-> "b"], doi |-> "b", by |-> "nr", pg |-> 1],
   [url |-> [slug |-> "a"], doi |-> CardDoi([slug |-> "a"]), by |-> "oer", pg |-> 1],
   [url |-> [slug |-> "a"], doi |-> CardDoi([slug |-> "a"]), by |-> "oer", pg |-> 2]}

Tables ==
  {<<>>} \cup {<<r>> : r \in EarlierRows}
    \cup {<<r, q>> : <<r, q>> \in
            {t \in EarlierRows \X EarlierRows :
               /\ t[2].by = "nr" => (t[1].by = "nr" /\ t[1].doi # t[2].doi)
               /\ t[1] # t[2] \/ t[1].by = "oer"}}

\* MLReadyScraper.run, twice at most, over a table the other entry points
\* may have left
SpecRerun == (\E t \in Tables : InitWith(t)) /\ [][NextRun]_vars

(***************************************************************************)
(* The parsers and the text length                                         *)
(***************************************************************************)

\* config.MIN_TEXT_LENGTH
MIN_TEXT_LENGTH == 200

\* the literal of MLReadyParser.parse_single_article: len(main_text) < 200
MLMinText == 200

\* the literal of NatureHTMLParser.parse_single_article: len(main_text) < 100
HtmlMinText == 100

\* lengths of extracted text tried: none, at and around the thresholds
TextLens ==
  {0, HtmlMinText - 1, HtmlMinText, MIN_TEXT_LENGTH - 1, MIN_TEXT_LENGTH,
   MIN_TEXT_LENGTH + 1}

\* MLReadyParser.parse_single_article goes on to build the record
ml_text_accepted(n) == ~(n < MLMinText)

\* MLReadyParser.parse_single_article on a document whose main text has n
\* characters, and its callers, which keep only a result that is not None
MLParse ==
  /\ \E n \in TextLens :
       parsed' = parsed \cup {[by |-> "ml", len |-> n, kept |-> ml_text_accepted(n) /\ ~extract_features_raises]}
  /\ UNCHANGED <<fetchVars, worldVars, runVars, probeVars>>

\* NatureHTMLParser.parse_single_article on a row whose HTML has n characters
\* of main text: below HtmlMinText it returns the row without the extracted
\* features, and process_all_articles appends whatever it returns and writes
\* the table
HtmlParse ==
  /\ \E n \in TextLens :
       parsed' = parsed \cup {[by |-> "html", len |-> n, kept |-> TRUE]}
  /\ UNCHANGED <<fetchVars, worldVars, runVars, probeVars>>

\* Parser.parse_pdf on a PDF with n characters of text: extract_text_from_pdf
\* warns below min_text_length and returns the text; parse_pdf drops only an
\* empty text; Parser.main writes every result that is not None
PdfParse ==
  /\ \E n \in TextLens :
       parsed' = parsed \cup {[by |-> "pdf", len |-> n, kept |-> n # 0]}
  /\ UNCHANGED <<fetchVars, worldVars, runVars, probeVars>>

NextParsers == MLParse \/ HtmlParse \/ PdfParse

SpecParsers == Init /\ [][NextParsers]_vars

(***************************************************************************)
(* utils.paywall_detection                                                 *)
(*                                                                         *)
(* A text is a sequence of characters. The texts tried are made of at most *)
(* MaxChunks pieces, joined without a separator, so that a phrase can span *)
(* two pieces.                                                             *)
(***************************************************************************)

MaxChunks == 3

\* str.lower on the letters the pieces use
lower_char(c) ==
  CASE c = "S" -> "s" [] c = "D" -> "d" [] c = "P" -> "p" [] c = "F" -> "f"
    [] c = "B" -> "b" [] OTHER -> c

lower(t) == [i \in DOMAIN t |-> lower_char(t[i])]

\* sub in t, for Python strings
contains(t, sub) ==
  \E i \in 1..(Len(t) - Len(sub) + 1) : SubSeq(t, i, i + Len(sub) - 1) = sub

\* pay_phrases, in the order of the list
pay_phrases ==
  <<<<"p", "u", "r", "c", "h", "a", "s", "e">>,
    <<"a", "c", "c", "e", "s", "s", " ", "d", "e", "n", "i", "e", "d">>,
    <<"s", "i", "g", "n", " ", "i", "n">>,
    <<"s", "i", "g", "n", " ", "i", "n", " ", "t", "o">>,
    <<"s", "u", "b", "s", "c", "r", "i", "b", "e">>,
    <<"b", "u", "y">>,
    <<"i", "n", "s", "t", "i", "t", "u", "t", "i", "o", "n", "a", "l", " ", "a", "c", "c", "e", "s", "s">>,
    <<"y", "o", "u", " ", "d", "o", " ", "n", "o", "t", " ", "h", "a", "v", "e", " ", "a", "c", "c", "e", "s", "s">>,
    <<"p", "u", "r", "c", "h", "a", "s", "e", " ", "a", "r", "t", "i", "c", "l", "e">>,
    <<"l", "o", "g", "i", "n">>>>

\* "download pdf", "supplementary information", "pdf", "download"
download_pdf == <<"d", "o", "w", "n", "l", "o", "a", "d", " ", "p", "d", "f">>
supplementary_information == <<"s", "u", "p", "p", "l", "e", "m", "e", "n", "t", "a", "r", "y", " ", "i", "n", "f", "o", "r", "m", "a", "t", "i", "o", "n">>
pdf == <<"p", "d", "f">>
download == <<"d", "o", "w", "n", "l", "o", "a", "d">>

\* the pieces of the texts tried: "Subscribe", "Buy", "log", "in", " ",
\* "Download PDF", "supplementary information", "pdf", "download", "open"
Chunks ==
  {<<"S", "u", "b", "s", "c", "r", "i", "b", "e">>,
   <<"B", "u", "y">>,
   <<"l", "o", "g">>,
   <<"i", "n">>,
   <<" ">>,
   <<"D", "o", "w", "n", "l", "o", "a", "d", " ", "P", "D", "F">>,
   <<"s", "u", "p", "p", "l", "e", "m", "e", "n", "t", "a", "r", "y", " ", "i", "n", "f", "o", "r", "m", "a", "t", "i", "o", "n">>,
   <<"p", "d", "f">>,
   <<"d", "o", "w", "n", "l", "o", "a", "d">>,
   <<"o", "p", "e", "n">>}

RECURSIVE Join(_)
Join(pieces) ==
  IF pieces = <<>> THEN <<>> ELSE Head(pieces) \o Join(Tail(pieces))

Texts ==
  {Join(ps) : ps \in UNION {[1..n -> Chunks] : n \in 0..MaxChunks}}

\* the loop over pay_phrases from phrase i on: TRUE at the first phrase found
RECURSIVE any_pay_phrase(_, _)
any_pay_phrase(lowered, i) ==
  IF i > Len(pay_phrases) THEN FALSE
  ELSE IF contains(lowered, pay_phrases[i]) THEN TRUE
  ELSE any_pay_phrase(lowered, i + 1)

\* a paywall_detection that looks at the indicators of an open text first
paywall_detection_open_first(html_text) ==
  LET lowered == lower(html_text)
  IN  IF contains(lowered, download_pdf)
           \/ contains(lowered, supplementary_information)
           \/ (contains(lowered, pdf) /\ contains(lowered, download))
        THEN FALSE
        ELSE any_pay_phrase(lowered, 1)

\* utils.paywall_detection(html_text): TRUE for paywalled
paywall_detection(html_text) ==
  LET lowered == lower(html_text)
  IN  IF any_pay_phrase(lowered, 1) THEN TRUE
      ELSE IF contains(lowered, download_pdf)
                \/ contains(lowered, supplementary_information)
                \/ (contains(lowered, pdf) /\ contains(lowered, download))
        THEN FALSE
        ELSE FALSE

\* paywall_detection is called with one of the texts
Classify ==
  /\ classified = {}
  /\ \E t \in Texts :
       classified' = {[text |-> t, paywalled |-> paywall_detection(t)]}
  /\ UNCHANGED <<fetchVars, worldVars, runVars, parsed, extracted, named, called>>

SpecPaywall == Init /\ [][Classify]_vars

(***************************************************************************)
(* The overpotential extractors                                            *)
(*                                                                         *)
(* A text is a sequence of items: the word "overpotential", the sign "η",  *)
(* a number followed by a space and a unit, the end of a sentence (". "),  *)
(* and a stretch of more than 200 characters without a digit. A keyword    *)
(* directly followed by a number reads "overpotential of 250 mV" or        *)
(* "η = 0.28 V". Values are in hundredths, so that 0.28 is 28 and 250.0 is *)
(* 25000.                                                                  *)
(***************************************************************************)

MaxItems == 3

\* no value: None
Null == -1

\* a number as written: the digits before the point and the digits after it
Lit(i, f) == [i |-> i, f |-> f]
NoLit == Lit(<<>>, <<>>)

\* "250", "198", "312", "5", "2500", "0.28"
NumLits ==
  {Lit(<<2, 5, 0>>, <<>>), Lit(<<1, 9, 8>>, <<>>), Lit(<<3, 1, 2>>, <<>>),
   Lit(<<5>>, <<>>), Lit(<<2, 5, 0, 0>>, <<>>), Lit(<<0>>, <<2, 8>>)}

KOver == [k |-> "overpotential", lit |-> NoLit, unit |-> "-"]
KEta == [k |-> "eta", lit |-> NoLit, unit |-> "-"]
Gap == [k |-> "gap", lit |-> NoLit, unit |-> "-"]
Stop == [k |-> "stop", lit |-> NoLit, unit |-> "-"]
Num(l, u) == [k |-> "num", lit |-> l, unit |-> u]

Items == {KOver, KEta, Gap, Stop} \cup {Num(l, u) : l \in NumLits, u \in {"mV", "V"}}

ItemTexts == UNION {[1..n -> Items] : n \in 0..MaxItems}

\* int of a run of digits
RECURSIVE IntOf(_)
IntOf(ds) ==
  IF ds = <<>> THEN 0 ELSE IntOf(SubSeq(ds, 1, Len(ds) - 1)) * 10 + ds[Len(ds)]

\* float of a number as (\d+\.?\d*) captures it, in hundredths
Val100(l) ==
  IntOf(l.i) * 100
    + (IF Len(l.f) = 0 THEN 0
       ELSE IF Len(l.f) = 1 THEN l.f[1] * 10
       ELSE l.f[1] * 10 + l.f[2])

\* a (\d{2,4}) that takes two digits at most
ParserDigitsTwo(l) ==
  LET run == IF l.f # <<>> THEN l.f ELSE l.i
      n == Len(run)
  IN  IF n < 2 THEN <<>> ELSE SubSeq(run, n - 1, n)

\* what (\d{2,4})\s*(mV|mv|V|v) captures of a number in front of its unit:
\* the run of digits that touches the unit (the digits after the point when
\* there is one), its last four digits when it is longer, nothing when it is
\* a single digit
ParserDigits(l) ==
  LET run == IF l.f # <<>> THEN l.f ELSE l.i
      n == Len(run)
  IN  IF n < 2 THEN <<>>
      ELSE SubSeq(run, IF n > 4 THEN n - 3 ELSE 1, n)

\* Parser._split_sentences: the positions of the sentence each position is in
SentenceOf(text, p) ==
  {q \in DOMAIN text :
     \A j \in (IF p < q THEN p ELSE q)..((IF p < q THEN q ELSE p) - 1) :
       text[j] # Stop}

\* the context test of find_overpotential on the sentence of position p:
\* "overpotential", "η", "mv" or " v" occurs in it
InContext(text, p) ==
  \E q \in SentenceOf(text, p) : text[q].k \in {"overpotential", "eta", "num"}

\* the value find_overpotential takes from the number at position p, in
\* hundredths, or Null when the pattern does not match it
ParserValue(text, p) ==
  LET ds == ParserDigits(text[p].lit)
      value == IntOf(ds) * 100
  IN  IF ds = <<>> THEN Null
      ELSE IF text[p].unit = "V" THEN value * 1000 ELSE value

Min(S) == CHOOSE x \in S : \A y \in S : x <= y

\* Parser.find_overpotential(text)['value'], or Null for None
find_overpotential(text) ==
  LET candidates ==
        {ParserValue(text, p) :
           p \in {p \in DOMAIN text :
                    /\ text[p].k = "num"
                    /\ InContext(text, p)
                    /\ ParserValue(text, p) # Null
                    /\ 10 * 100 <= ParserValue(text, p)
                    /\ ParserValue(text, p) <= 2000 * 100}}
  IN  IF candidates = {} THEN Null ELSE Min(candidates)

\* the number a pattern 'lead[\s\S]{0,200}?(\d+\.?\d*)\s*[mM]?[Vv]' reaches
\* from the keyword at position p: the nearest number after it that no gap of
\* more than 200 characters separates from it; 0 when there is none
Reach(text, p) ==
  LET qs == {q \in DOMAIN text :
               /\ q > p /\ text[q].k = "num"
               /\ \A j \in (p + 1)..(q - 1) : text[j] # Gap}
  IN  IF qs = {} THEN 0 ELSE Min(qs)

\* re.findall(pattern, text)[0] for the pattern that starts with the keyword
\* lead: the position of the first number captured, 0 for no match
FirstAfter(text, lead) ==
  LET ps == {p \in DOMAIN text : text[p].k = lead /\ Reach(text, p) # 0}
  IN  IF ps = {} THEN 0 ELSE Reach(text, Min(ps))

\* re.findall for 'η\s*=\s*(\d+\.?\d*)\s*[mM]?[Vv]': the first "η = number"
FirstEtaEquals(text) ==
  LET ps == {p \in DOMAIN text :
               text[p].k = "eta" /\ p < Len(text) /\ text[p + 1].k = "num"}
  IN  IF ps = {} THEN 0 ELSE Min(ps) + 1

\* an extract_numeric_value that goes through the patterns from the last one
extract_numeric_value_last_first(text) ==
  LET q1 == FirstAfter(text, "overpotential")
      q2 == FirstAfter(text, "eta")
      q3 == FirstEtaEquals(text)
  IN  IF q3 # 0 THEN Val100(text[q3].lit)
      ELSE IF q2 # 0 THEN Val100(text[q2].lit)
      ELSE IF q1 # 0 THEN Val100(text[q1].lit)
      ELSE Null

\* MLReadyParser.extract_numeric_value(text, self.patterns['overpotential']):
\* the float of the first match of the first pattern that matches
extract_numeric_value(text) ==
  LET q1 == FirstAfter(text, "overpotential")
      q2 == FirstAfter(text, "eta")
      q3 == FirstEtaEquals(text)
  IN  IF q1 # 0 THEN Val100(text[q1].lit)
      ELSE IF q2 # 0 THEN Val100(text[q2].lit)
      ELSE IF q3 # 0 THEN Val100(text[q3].lit)
      ELSE Null

\* re.findall for 'lead[\s\S]{0,200}?(\d+\.?\d*)\s*[mM]?[Vv]' from position
\* from on: the positions of the numbers captured, in order
RECURSIVE AllAfter(_, _, _)
AllAfter(text, lead, from) ==
  LET ps == {p \in DOMAIN text : p >= from /\ text[p].k = lead /\ Reach(text, p) # 0}
  IN  IF ps = {} THEN <<>>
      ELSE <<Reach(text, Min(ps))>> \o AllAfter(text, lead, Reach(text, Min(ps)) + 1)

\* the "overpotential" a pattern '(\d+\.?\d*)\s*[mM]?[Vv][\s\S]{0,200}?overpotential'
\* reaches from the number at position q, 0 when there is none
ReachOver(text, q) ==
  LET ps == {p \in DOMAIN text :
               /\ p > q /\ text[p] = KOver
               /\ \A j \in (q + 1)..(p - 1) : text[j] # Gap}
  IN  IF ps = {} THEN 0 ELSE Min(ps)

\* re.findall for that pattern from position from on
RECURSIVE AllBefore(_, _)
AllBefore(text, from) ==
  LET qs == {q \in DOMAIN text : q >= from /\ text[q].k = "num" /\ ReachOver(text, q) # 0}
  IN  IF qs = {} THEN <<>>
      ELSE <<Min(qs)>> \o AllBefore(text, ReachOver(text, Min(qs)) + 1)

\* re.findall for 'overpotential\s*of\s*(...)' and 'η\s*=\s*(...)' from
\* position from on: the numbers that directly follow the keyword lead
RECURSIVE AllNextTo(_, _, _)
AllNextTo(text, lead, from) ==
  LET ps == {p \in DOMAIN text :
               p >= from /\ text[p].k = lead /\ p < Len(text) /\ text[p + 1].k = "num"}
  IN  IF ps = {} THEN <<>>
      ELSE <<Min(ps) + 1>> \o AllNextTo(text, lead, Min(ps) + 2)

\* self.overpotential_patterns of NatureHTMLParser, as the matches of each
HtmlMatches(text) ==
  <<AllAfter(text, "overpotential", 1), AllAfter(text, "eta", 1), AllBefore(text, 1),
    AllNextTo(text, "overpotential", 1), AllNextTo(text, "eta", 1)>>

\* ' v' in context_text, for pattern n and the number at position q: the
\* context is the first match of the pattern with the number written in, from
\* the first keyword that reaches a number so written to that number (for
\* the third pattern from the number to the keyword)
HtmlVoltContext(text, n, q) ==
  LET same == {r \in DOMAIN text : text[r].k = "num" /\ text[r].lit = text[q].lit}
      lead == IF n \in {1, 4} THEN "overpotential" ELSE "eta"
      nogap(a, b) == \A j \in (a + 1)..(b - 1) : text[j] # Gap
      starts == IF n = 3 THEN {r \in same : ReachOver(text, r) # 0}
                ELSE IF n \in {1, 2}
                  THEN {p \in DOMAIN text :
                          text[p].k = lead /\ \E r \in same : r > p /\ nogap(p, r)}
                  ELSE {p \in DOMAIN text :
                          text[p].k = lead /\ p + 1 \in same}
      lo == Min(starts)
      hi == IF n = 3 THEN lo
            ELSE IF n \in {1, 2} THEN Min({r \in same : r > lo /\ nogap(lo, r)})
            ELSE lo + 1
  IN  starts # {} /\ \E j \in lo..hi : text[j].k = "num" /\ text[j].unit = "V"

\* the value extract_overpotential computes for the match at q of pattern n
HtmlValue(text, n, q) ==
  LET value == Val100(text[q].lit)
  IN  IF HtmlVoltContext(text, n, q) /\ value < 10 * 100 THEN value * 1000 ELSE value

\* the loops of extract_overpotential from match i of pattern n on: the first
\* value within 10..1000
RECURSIVE HtmlScan(_, _, _)
HtmlScan(text, n, i) ==
  IF n > Len(HtmlMatches(text)) THEN Null
  ELSE IF i > Len(HtmlMatches(text)[n]) THEN HtmlScan(text, n + 1, 1)
  ELSE LET value == HtmlValue(text, n, HtmlMatches(text)[n][i])
       IN  IF 10 * 100 <= value /\ value <= 1000 * 100 THEN value
           ELSE HtmlScan(text, n, i + 1)

\* NatureHTMLParser.extract_overpotential(text), or Null for None
extract_overpotential(text) ==
  IF text = <<>> THEN Null ELSE HtmlScan(text, 1, 1)

\* the extractors are called with one of the texts
Extract ==
  /\ extracted = {}
  /\ \E t \in ItemTexts :
       extracted' = {[text |-> t,
                      parser |-> find_overpotential(t),
                      ml |-> extract_numeric_value(t),
                      html |-> extract_overpotential(t)]}
  /\ UNCHANGED <<fetchVars, worldVars, runVars, parsed, classified, named, called>>

SpecOverpotential == Init /\ [][Extract]_vars

MaxPhrases == 3

\* the phrases of the texts given to extract_numeric_value on its own: a
\* keyword, a keyword and its number, a number, a stretch without numbers
Phrases ==
  LET nums == {Num(l, "mV") : l \in {Lit(<<2, 5, 0>>, <<>>), Lit(<<3, 1, 2>>, <<>>),
                                      Lit(<<1, 9, 8>>, <<>>)}}
  IN  {<<KOver>>, <<KEta>>, <<Gap>>}
        \cup {<<n>> : n \in nums}
        \cup {<<k, n>> : k \in {KOver, KEta}, n \in nums}

PhraseTexts == {Join(ps) : ps \in UNION {[1..n -> Phrases] : n \in 0..MaxPhrases}}

\* extract_numeric_value is called with one of the texts
ExtractNumeric ==
  /\ called = {}
  /\ \E t \in PhraseTexts :
       called' = {[fn |-> "extract_numeric_value", arg |-> t,
                   out |-> extract_numeric_value(t)]}
  /\ UNCHANGED <<fetchVars, worldVars, runVars, parsed, classified, extracted, named>>

SpecPatterns == Init /\ [][ExtractNumeric]_vars

(***************************************************************************)
(* Parser.find_catalyst, find_substrate and find_electrolyte               *)
(*                                                                         *)
(* A text is a sequence of characters, made of at most MaxWords pieces of  *)
(* a sentence. What re.findall returns for the structural patterns is      *)
(* taken as given: per pattern, a list of spans of the text.               *)
(***************************************************************************)

MaxWords == 3

CATALYST_KEYWORDS ==
  LET names ==
  <<"Ni", "Co", "Fe", "Mn", "Cu", "Zn", "Mo", "W", "V", "Cr",
      "Ru", "Ir", "Pt", "Pd", "Sn", "Pb", "Ti", "Nb", "Ta", "Zr",
      "Ce", "La", "Sr", "Ba",
      "MoS2", "NiFe-LDH", "Co3O4", "NiO", "Fe2O3", "NiCo2O4",
      "NiMoO4", "NiFe2O4", "CoOOH", "Ni(OH)2",
      "perovskite", "spinel", "LDH", "layered double hydroxide">>
  IN  [k \in DOMAIN names |-> Chars(names[k])]

SUBSTRATE_KEYWORDS ==
  LET names ==
  <<"nickel foam", "carbon cloth", "carbon paper", "glassy carbon",
      "GC", "FTO", "ITO", "copper foam", "titanium foil",
      "stainless steel", "graphene", "CNT", "carbon nanotube">>
  IN  [k \in DOMAIN names |-> Chars(names[k])]

ELECTROLYTE_KEYWORDS ==
  LET names ==
  <<"KOH", "NaOH", "H2SO4", "HCl", "H3PO4", "Na2CO3",
      "LiOH", "NH4Cl", "phosphate buffer", "PBS", "seawater">>
  IN  [k \in DOMAIN names |-> Chars(names[k])]

\* Python's None, which no text equals
None == <<"None">>

\* \w of the regular expressions
WordChars ==
  LET w == Chars("ABCDEFGHIJKLMNOPQRSTUVWXYZabcdefghijklmnopqrstuvwxyz0123456789_")
  IN  {w[i] : i \in DOMAIN w}

\* the lower-case letter of each upper-case letter
LowerOf ==
  LET upper == Chars("ABCDEFGHIJKLMNOPQRSTUVWXYZ")
      lowercase == Chars("abcdefghijklmnopqrstuvwxyz")
  IN  [c \in {upper[i] : i \in DOMAIN upper} |->
         lowercase[CHOOSE k \in DOMAIN upper : upper[k] = c]]

\* str.lower
lower_text(t) == [i \in DOMAIN t |-> IF t[i] \in DOMAIN LowerOf THEN LowerOf[t[i]] ELSE t[i]]

\* len(s.split())
word_count(s) ==
  Cardinality({i \in DOMAIN s : ~IsSpace(s[i]) /\ (i = 1 \/ IsSpace(s[i - 1]))})

StartsAt(t, i, sub) ==
  i >= 1 /\ i + Len(sub) - 1 <= Len(t) /\ SubSeq(t, i, i + Len(sub) - 1) = sub

\* \b between the characters p and p + 1 of t
WordBoundary(t, p) ==
  (p \in DOMAIN t /\ t[p] \in WordChars) # (p + 1 \in DOMAIN t /\ t[p + 1] \in WordChars)

\* re.search(r'\b' + re.escape(keyword) + r'\b', text, re.IGNORECASE), for
\* the lowered text
whole_word(lowered, keyword) ==
  LET k == lower_text(keyword)
  IN  \E i \in DOMAIN lowered :
        /\ StartsAt(lowered, i, k)
        /\ WordBoundary(lowered, i - 1)
        /\ WordBoundary(lowered, i + Len(k) - 1)

\* any(keyword.lower() in candidate.lower() for keyword in keywords)
validated(candidate, keywords) ==
  LET lowered == lower_text(candidate)
  IN  \E k \in DOMAIN keywords : contains(lowered, lower_text(keywords[k]))

First(S) == CHOOSE i \in S : \A j \in S : i <= j
Last(S) == CHOOSE i \in S : \A j \in S : i >= j

\* a find_catalyst that searches the keywords before the structural spans
find_entity_keywords_first(text, matches, keywords) ==
  LET candidates == [i \in DOMAIN Join(matches) |-> strip(Join(matches)[i])]
      valid == {i \in DOMAIN candidates : validated(candidates[i], keywords)}
      lowered == lower_text(text)
      hits == {k \in DOMAIN keywords : whole_word(lowered, keywords[k])}
  IN  IF hits # {} THEN keywords[First(hits)]
      ELSE IF valid # {} THEN candidates[First(valid)]
      ELSE None

\* the body find_catalyst and find_substrate share; matches[p] is what
\* re.findall(patterns[p], text, re.IGNORECASE) returns
find_entity(text, matches, keywords) ==
  LET candidates == [i \in DOMAIN Join(matches) |-> strip(Join(matches)[i])]
      valid == {i \in DOMAIN candidates : validated(candidates[i], keywords)}
      lowered == lower_text(text)
      hits == {k \in DOMAIN keywords : whole_word(lowered, keywords[k])}
  IN  IF valid # {} THEN candidates[First(valid)]
      ELSE IF hits # {} THEN keywords[First(hits)]
      ELSE None

find_catalyst(text, matches) == find_entity(text, matches, CATALYST_KEYWORDS)

find_substrate(text, matches) == find_entity(text, matches, SUBSTRATE_KEYWORDS)

\* re.sub(r'\s+', ' ', text)
RECURSIVE collapse(_)
collapse(t) ==
  IF t = <<>> THEN <<>>
  ELSE IF Len(t) >= 2 /\ IsSpace(t[1]) /\ IsSpace(t[2]) THEN collapse(Tail(t))
  ELSE <<t[1]>> \o collapse(Tail(t))

\* the pieces of t from character s on, cut at the characters in cuts
RECURSIVE SplitFrom(_, _, _)
SplitFrom(t, cuts, s) ==
  LET ahead == {c \in cuts : c >= s}
  IN  IF ahead = {} THEN <<SubSeq(t, s, Len(t))>>
      ELSE <<SubSeq(t, s, First(ahead) - 1)>> \o SplitFrom(t, cuts, First(ahead) + 1)

\* Parser._split_sentences: cut at the blank after a '.' or a ';'
split_sentences(text) ==
  LET t == collapse(text)
  IN  SplitFrom(t, {i \in DOMAIN t : i > 1 /\ IsSpace(t[i]) /\ t[i - 1] \in {".", ";"}}, 1)

catalyst == Chars("catalyst")
electrocatalyst == Chars("electrocatalyst")

\* the class [A-Za-z0-9\-\(\)/..\s] of the name; its middle dot and its
\* en dash are in none of the texts
InNameClass(c) ==
  c \in WordChars \ {"_"} \/ c \in {"-", "(", ")", "/"} \/ IsSpace(c)

\* \s*(?:catalyst|electrocatalyst) matches t from character j on
NameTail(t, j) ==
  \E s \in j..Len(t) :
    /\ \A x \in j..(s - 1) : IsSpace(t[x])
    /\ StartsAt(t, s, catalyst) \/ StartsAt(t, s, electrocatalyst)

\* the lengths n for which [A-Z][...]{n} from character p on is followed by
\* the tail
NameLengths(t, p) ==
  {n \in 5..80 : /\ p + n <= Len(t)
                 /\ \A x \in (p + 1)..(p + n) : InNameClass(t[x])
                 /\ NameTail(t, p + n + 1)}

\* group(1) of re.search(r'([A-Z][A-Za-z0-9\-\(\)/..\s]{5,80})\s*
\* (?:catalyst|electrocatalyst)', sent), None without a match
NameSearch(sent) ==
  LET starts == {p \in DOMAIN sent :
                   sent[p] \in DOMAIN LowerOf /\ NameLengths(sent, p) # {}}
  IN  IF starts = {} THEN None
      ELSE SubSeq(sent, First(starts),
                  First(starts) + Last(NameLengths(sent, First(starts))))

RECURSIVE electrolyte_candidates(_)
electrolyte_candidates(sentences) ==
  IF sentences = <<>> THEN <<>>
  ELSE LET sent == Head(sentences)
           name == IF contains(lower_text(sent), catalyst)
                        \/ contains(lower_text(sent), electrocatalyst)
                     THEN NameSearch(sent) ELSE None
       IN  (IF name # None /\ word_count(strip(name)) >= 2
              THEN <<strip(name)>> ELSE <<>>)
           \o electrolyte_candidates(Tail(sentences))

\* Parser.find_electrolyte
find_electrolyte(text) ==
  LET candidates == electrolyte_candidates(split_sentences(text))
  IN  IF candidates # <<>> THEN candidates[1] ELSE None

\* the pieces of a sentence
Words ==
  {Chars("The "), Chars("NiFe-LDH "), Chars("nickel "),
   Chars("electrocatalyst "), Chars("on carbon cloth. ")}

WordTexts == UNION {[1..n -> Words] : n \in 0..MaxWords}

\* the spans of consecutive pieces of ws, and a blank
Spans(ws) ==
  IF ws = <<>> THEN {}
  ELSE {Join(SubSeq(ws, i, j)) : i \in DOMAIN ws, j \in DOMAIN ws} \cup {<<" ">>}

\* what the two structural patterns capture in ws: at most two spans in all
Matches(ws) ==
  LET lists == UNION {[1..n -> Spans(ws)] : n \in 0..2}
  IN  {<<m1, m2>> : m1 \in lists, m2 \in lists} \ {m \in lists \X lists : Len(m[1]) + Len(m[2]) > 2}

\* find_catalyst is called with one of the texts
FindCatalyst ==
  /\ named = {}
  /\ \E ws \in WordTexts : \E m \in Matches(ws) :
       named' = {[fn |-> "find_catalyst", text |-> Join(ws), matches |-> m,
                  out |-> find_catalyst(Join(ws), m)]}
  /\ UNCHANGED <<fetchVars, worldVars, runVars, parsed, classified, extracted, called>>

\* find_substrate is called with one of the texts
FindSubstrate ==
  /\ named = {}
  /\ \E ws \in WordTexts : \E m \in Matches(ws) :
       named' = {[fn |-> "find_substrate", text |-> Join(ws), matches |-> m,
                  out |-> find_substrate(Join(ws), m)]}
  /\ UNCHANGED <<fetchVars, worldVars, runVars, parsed, classified, extracted, called>>

\* find_electrolyte is called with one of the texts
FindElectrolyte ==
  /\ named = {}
  /\ \E ws \in WordTexts :
       named' = {[fn |-> "find_electrolyte", text |-> Join(ws),
                  matches |-> <<>>,
                  out |-> find_electrolyte(Join(ws))]}
  /\ UNCHANGED <<fetchVars, worldVars, runVars, parsed, classified, extracted, called>>

SpecEntities == Init /\ [][FindCatalyst \/ FindSubstrate \/ FindElectrolyte]_vars

(***************************************************************************)
(* utils.safe_filename_from_doi, called on its own                         *)
(***************************************************************************)

\* the identifiers the function is given: a DOI prefix and up to two more
\* characters, among them the ones the function replaces or strips
DoiTexts ==
  LET tail == {"a", "b", "/", ":", "_", " "}
  IN  {"10.1038/" \o x \o y : x \in tail, y \in tail \cup {""}}

\* safe_filename_from_doi is called with one identifier; the results of two
\* calls are kept
SafeFilename ==
  /\ Cardinality(called) < 2
  /\ \E d \in DoiTexts :
       called' = called \cup {[fn |-> "safe_filename_from_doi", arg |-> d,
                               out |-> safe_filename_from_doi(d)]}
  /\ UNCHANGED <<fetchVars, worldVars, runVars, parsed, classified, extracted, named>>

SpecFilename == Init /\ [][SafeFilename]_vars

(***************************************************************************)
(* MLReadyScraper.extract_article_urls_from_search, called on its own      *)
(*                                                                         *)
(* A listing document is the sequence of its <a> elements in document      *)
(* order. Of an element the function reads the href, and the selectors     *)
(* read whether it carries data-track-action="view article" (track), lies  *)
(* in an <h3> (h3) or in an element of class c-card__title (card).         *)
(***************************************************************************)

MaxLinks == 2

\* the hrefs of the elements: none, a page that is no article, an article as
\* a path and as a full URL, a second article, an articles path without a
\* token
Hrefs ==
  {"", "/subjects/catalysis", "/articles/a", "https://www.nature.com/articles/a",
   "/articles/b", "/articles/?page=2"}

Documents ==
  UNION {[1..n -> [href : Hrefs, track : BOOLEAN, h3 : BOOLEAN, card : BOOLEAN]] :
           n \in 0..MaxLinks}

\* the selectors, in the order of the list
Selectors == <<"track", "h3", "card", "href">>

\* link is selected by selectors[s]; the last one is a[href*="/articles/"]
Selected(link, s) ==
  CASE Selectors[s] = "track" -> link.track
    [] Selectors[s] = "h3" -> link.h3
    [] Selectors[s] = "card" -> link.card
    [] Selectors[s] = "href" -> contains(Chars(link.href), Chars("/articles/"))

\* soup.select(selectors[s]): the selected elements in document order
select(doc, s) == SelectIdx(doc, {i \in DOMAIN doc : Selected(doc[i], s)}, 1)

\* f"https://www.nature.com{href}" if href.startswith('/') else href
full_url(href) ==
  IF href # "" /\ Chars(href)[1] = "/" THEN "https://www.nature.com" \o href ELSE href

\* href and '/articles/' in href, and
\* re.search(r'/articles/(\w+-\d+-\w+-\d+-\w+|\w+)', full_url): the second
\* alternative matches as soon as a word character follows '/articles/'
href_accepted(href) ==
  LET t == Chars(full_url(href))
      lead == Chars("/articles/")
  IN  /\ href # ""
      /\ contains(Chars(href), lead)
      /\ \E i \in DOMAIN t :
           /\ i + Len(lead) <= Len(t)
           /\ SubSeq(t, i, i + Len(lead) - 1) = lead
           /\ t[i + Len(lead)] \in WordChars

\* the loop over the links of one selector, from the urls found so far
RECURSIVE add_links(_, _)
add_links(urls, links) ==
  IF links = <<>> THEN urls
  ELSE LET url == full_url(Head(links).href)
       IN  add_links(IF href_accepted(Head(links).href)
                          /\ \A i \in DOMAIN urls : urls[i] # url
                       THEN Append(urls, url) ELSE urls,
                     Tail(links))

\* the loop over the selectors from selectors[s] on, with its break
RECURSIVE scan_selectors(_, _)
scan_selectors(doc, s) ==
  IF s > Len(Selectors) THEN <<>>
  ELSE IF add_links(<<>>, select(doc, s)) # <<>> THEN add_links(<<>>, select(doc, s))
  ELSE scan_selectors(doc, s + 1)

\* an extract_article_urls_from_search without the break: every selector adds
\* its links
extract_article_urls_no_break(doc) ==
  add_links(add_links(add_links(add_links(<<>>, select(doc, 1)), select(doc, 2)),
                      select(doc, 3)), select(doc, 4))

\* MLReadyScraper.extract_article_urls_from_search(html_content)
extract_article_urls_from_search(doc) == scan_selectors(doc, 1)

\* extract_article_urls_from_search is called with one of the documents
ExtractUrls ==
  /\ called = {}
  /\ \E doc \in Documents :
       called' = {[fn |-> "extract_article_urls_from_search", arg |-> doc,
                   out |-> extract_article_urls_from_search(doc)]}
  /\ UNCHANGED <<fetchVars, worldVars, runVars, parsed, classified, extracted, named>>

SpecListing == Init /\ [][ExtractUrls]_vars

(***************************************************************************)
(* Properties                                                              *)
(***************************************************************************)

InRun == pc \in {"page", "cand", "final", "done"}

\* the row DataFrame.to_csv writes for record r
WriteRow(r) == [r EXCEPT !.doi = WriteCell(@)]

Rows(file) == {file[i] : i \in DOMAIN file}

\* the records of d that no later record of d has the doi of
LastAdded(d) == {d[i] : i \in {i \in DOMAIN d : \A j \in (i + 1)..Len(d) : d[j].doi # d[i].doi}}

\* C1: a complete MLReadyScraper.run that follows a complete
\* MLReadyScraper.run over the same source leaves the persisted table with the
\* identifiers and the row count it had when it started.
C1_RerunAddsNoRows ==
  (prog = "ml" /\ pc = "done" /\ prev = "ml")
    => (Ids(csv) = Ids(csv0) /\ Len(csv) = Len(csv0))

\* C1 witness: the second of two complete runs has ended; the table holds a
\* row, and the runs met an article page with a long text, whose file is on
\* disk
C1_Witness ==
  /\ prog = "ml" /\ pc = "done" /\ prev = "ml"
  /\ csv # <<>>
  /\ \E sl \in Slugs : raw[sl] # Unknown /\ raw[sl].long

\* C2: a call of download_and_process_article for a URL that has a row in
\* the persisted table, whatever the row's 'doi' column holds, reports
\* 'already processed' and issues no request.
C2_ShortCircuit ==
  [][(/\ prog = "ml" /\ pc = "cand"
      /\ \E i \in DOMAIN csv : csv[i].url = cands[idx]
      /\ last' # NoStep)
     => (last'.outcome = "already" /\ last'.requests = 0)]_vars

\* C3: the persisted table never holds two rows with the same identifier.
C3_UniqueIds ==
  \A i, j \in DOMAIN csv : i # j => csv[i].doi # csv[j].doi

\* C4: when a scraper's run has ended with its final save_progress, the row
\* the table holds for an identifier is the record added last for it.
C4_LastWriteWins ==
  (prog \in {"ml", "nr"} /\ pc = "done")
    => \A r \in LastAdded(data) : WriteRow(r) \in Rows(csv)

\* C5: every identifier of the persisted table at the start of a run is in
\* the persisted table at every later point of that run, also when it has
\* ended or has been killed.
C5_NoCommittedRowLost ==
  Ids(csv0) \subseteq Ids(csv)

\* C6: between two candidates of a MLReadyScraper run, and until the run has
\* ended, the persisted table holds the row of every record in self.data
\* (for an identifier added more than once, the row of the last one).
C6_FlushAfterSuccess ==
  (prog = "ml" /\ InRun)
    => \A r \in LastAdded(data) : WriteRow(r) \in Rows(csv)

(***************************************************************************)
(* Properties of make_request                                              *)
(***************************************************************************)

Calling == mr.ret # "idle"

Transient == {429, 500, ConnErr}

\* the sequence of n answers r
Repeat(r, n) == [i \in 1..n |-> r]

\* C7 as stated: after three consecutive 429 answers the call has not failed
\* (a fourth request can still succeed), and a call whose transient failures
\* have used up the retry bound has failed as exhausted.
C7_FourthRequestSucceeds ==
  Calling =>
    /\ (Len(mr.resps) >= 3 /\ SubSeq(mr.resps, 1, 3) = Repeat(429, 3))
         => mr.ret # "none"
    /\ (Len(mr.resps) = mr.max /\ \A i \in DOMAIN mr.resps : mr.resps[i] \in Transient)
         => (mr.ret = "none" /\ mr.exit = "exhausted")

\* C7 amended: while fewer than max_retries requests were all answered 429
\* the call goes on; a 200 after fewer than max_retries 429 answers is
\* returned; max_retries transient failures end the call as exhausted, with
\* max_retries requests issued and no further one.
C7_RateLimitedWithinBound ==
  Calling =>
    /\ \A k \in 0..(mr.max - 1) :
         /\ (k > 0 /\ mr.resps = Repeat(429, k)) => mr.ret = "pending"
         /\ mr.resps = Append(Repeat(429, k), 200)
              => (mr.ret = "response" /\ mr.requests = k + 1)
    /\ (Len(mr.resps) = mr.max /\ \A i \in DOMAIN mr.resps : mr.resps[i] \in Transient)
         => (mr.ret = "none" /\ mr.exit = "exhausted" /\ mr.requests = mr.max)

\* C7 witness: three 429 answers have exhausted the call
C7_Witness ==
  Calling /\ mr.resps = Repeat(429, 3) /\ mr.exit = "exhausted"

\* C8: a 403 or 404 answer is the last request of its call: the call has
\* returned failure at once, one request was issued for each attempt up to
\* it, and no backoff wait followed it.
C8_TerminalNoRetry ==
  Calling =>
    \A i \in DOMAIN mr.resps :
      mr.resps[i] \in {403, 404}
        => /\ i = Len(mr.resps)
           /\ mr.ret = "none" /\ mr.exit = "terminal"
           /\ mr.requests = i
           /\ ~mr.waited
           /\ Len(mr.waits) <= i - 1

\* C8 witness: a 404 on the second attempt has ended the call
C8_Witness ==
  Calling /\ Len(mr.resps) = 2 /\ mr.resps[2] = 404 /\ mr.ret = "none"

\* C9: a call that goes on to a retry after a transient failure has taken a
\* backoff wait of attempt x base, the base of 429 longer than that of a
\* connection error.
C9_BackoffBeforeRetry ==
  (Calling /\ mr.ret = "pending" /\ mr.last \in Transient)
    => /\ mr.waited
       /\ mr.waits[Len(mr.waits)] =
            mr.attempt * (IF mr.last = 429 THEN RateLimitBase ELSE ConnErrBase)
       /\ RateLimitBase > ConnErrBase

\* C10: a call issues at most max_retries requests, and every call returns.
C10_BoundedRetries ==
  /\ [](Calling => mr.requests <= mr.max)
  /\ [](mr.ret = "pending" => <>(mr.ret \in {"response", "none"}))

\* C10 witness: a call has returned failure after max_retries requests
C10_Witness ==
  Calling /\ mr.requests = mr.max /\ mr.ret = "none" /\ mr.last = ConnErr

\* C11: the value a caller gets back from make_request tells a call that
\* used up its retries from one that met a terminal status, and carries the
\* terminal status: two calls that differ in either were given different
\* values.
C11_OutcomesDistinguishable ==
  \A x, y \in returned :
    (\/ x.exit # y.exit
     \/ (x.exit = "terminal" /\ x.status # y.status))
      => x.result # y.result

(***************************************************************************)
(* Properties of the paging of MLReadyScraper.run                          *)
(***************************************************************************)

\* the step is one of the run itself, not its kill or interrupt
RunStep == pc' # "idle"

CandFailures == {"nofetch", "notarticle", "noparse"}

\* C12: when the listing page just fetched yields no candidate, paging
\* stops: the run goes to its final save on the same page number.
C12_EmptyPageEndsPaging ==
  [][(/\ prog = "ml" /\ pc = "page" /\ RunStep
      /\ listing'[page].up /\ listing'[page].urls = <<>>)
     => (pc' = "final" /\ page' = page)]_vars

\* C13: after a failed candidate the next candidate of the page is taken,
\* and after the last candidate of a page under the page limit the next
\* listing page is taken, whatever the outcomes of the page's candidates.
C13_CandidateFailureNonFatal ==
  [][(/\ prog = "ml" /\ pc = "cand" /\ RunStep
      /\ last'.outcome \in CandFailures)
     => IF idx < Len(cands)
          THEN pc' = "cand" /\ idx' = idx + 1 /\ page' = page
          ELSE page < MaxPages => (pc' = "page" /\ page' = page + 1)]_vars

\* C14: when the request for listing page n has failed, the run goes to its
\* final save without another page, and from there it ends with the final
\* save_progress done and exit status 0.
C14_ListingFailureEndsPaging ==
  /\ [][(/\ prog = "ml" /\ pc = "page" /\ RunStep
          /\ listing'[page] # UnknownListing /\ ~listing'[page].up)
         => (pc' = "final" /\ page' = page /\ listing' = [listing EXCEPT ![page] = listing'[page]])]_vars
  /\ [][(prog = "ml" /\ pc = "final" /\ RunStep)
         => (/\ pc' = "done" /\ status' = 0
             /\ csv' = save_progress(csv, data)
             /\ listing' = listing)]_vars

\* C14 witness: the first listing page of two could not be fetched and the
\* run is at its final save
C14_Witness ==
  /\ prog = "ml" /\ pc = "final" /\ page = 1 /\ page < MaxPages
  /\ last.url = ListingUrl
  /\ listing[page] # UnknownListing /\ ~listing[page].up

\* C15: when a run is interrupted, the identifier of every record held in
\* memory is in the persisted table after the exit.
C15_FlushOnInterrupt ==
  [][(pc \in {"page", "cand", "final"} /\ pc' = "idle" /\ status' \in {0, 130})
     => Ids(to_csv(data)) \subseteq Ids(csv')]_vars

\* C16: a finished MLReadyScraper run has exit status 0 unless its first
\* listing page could not be fetched, and a non-zero one then.
C16_ExitStatus ==
  (prog = "ml" /\ pc = "done")
    => IF listing[1].up THEN status = 0 ELSE status # 0

\* C17: a run asks for listing pages 1, 2, ... in this order, for none
\* beyond MaxPages, and every run that has started reaches its end.
C17_BoundedPaging ==
  /\ []((prog = "ml" /\ pc \in {"page", "cand", "final"}) => page \in 1..MaxPages)
  /\ [][(pc \in {"idle", "done"} /\ pc' = "page") => page' = 1]_vars
  /\ [][(prog = "ml" /\ pc \in {"page", "cand"} /\ RunStep /\ page' # page)
         => (page' = page + 1 /\ pc' = "page")]_vars
  /\ [][(prog = "ml" /\ pc = "page" /\ RunStep)
         => /\ last'.url = ListingUrl
            /\ \A p \in 1..MaxPages : listing'[p] # listing[p] => p = page]_vars
  /\ [][(prog = "ml" /\ pc # "page") => listing' = listing]_vars
  /\ ((prog = "ml" /\ pc \in {"page", "cand", "final"}) ~> (pc = "done"))

\* C17 witness: a run has ended after its last allowed listing page, which
\* had candidates
C17_Witness ==
  /\ prog = "ml" /\ pc = "done" /\ page = MaxPages
  /\ listing[MaxPages].up /\ listing[MaxPages].urls # <<>>

\* C20: a candidate whose cache file RAW_DIR/<slug>.html exists is handled
\* without a request for its document.
C20_CacheHitSkipsFetch ==
  [][(/\ prog = "ml" /\ pc = "cand" /\ RunStep
      /\ raw[extract_doi_from_url(cands[idx])] # Unknown)
     => last'.requests = 0]_vars

(***************************************************************************)
(* Properties of the parsers                                               *)
(***************************************************************************)

\* C18: no parser puts a record into its output table for a document whose
\* extracted text is shorter than MIN_TEXT_LENGTH.
C18_ShortTextNotPersisted ==
  \A d \in parsed : d.kept => d.len >= MIN_TEXT_LENGTH

\* C19: MLReadyParser.parse_single_article yields no record for a text of
\* MIN_TEXT_LENGTH - 1 characters and yields one for a text of
\* MIN_TEXT_LENGTH characters.
C19_TextLengthBoundary ==
  \A d \in parsed :
    d.by = "ml" =>
      /\ d.len = MIN_TEXT_LENGTH - 1 => ~d.kept
      /\ d.len = MIN_TEXT_LENGTH => d.kept

(***************************************************************************)
(* Properties of paywall_detection                                         *)
(***************************************************************************)

\* a negative phrase occurs in t, whatever the case of its letters
HasNegativePhrase(t) ==
  \E i \in DOMAIN pay_phrases : contains(lower(t), pay_phrases[i])

\* a positive indicator occurs in t
HasPositiveIndicator(t) ==
  \/ contains(lower(t), download_pdf)
  \/ contains(lower(t), supplementary_information)
  \/ contains(lower(t), pdf) /\ contains(lower(t), download)

\* C22: paywall_detection classifies a text as paywalled exactly when a
\* negative phrase occurs in it: a positive indicator does not change the
\* verdict, and a text with no negative phrase is open, also when it has no
\* positive indicator either.
C22_PaywallDecision ==
  \A c \in classified : c.paywalled <=> HasNegativePhrase(c.text)

\* C22 witness: a text with both a negative phrase and a positive indicator
\* has been classified as paywalled
C22_Witness ==
  \E c \in classified :
    HasNegativePhrase(c.text) /\ HasPositiveIndicator(c.text) /\ c.paywalled

\* C23: no document that paywall_detection classifies as paywalled is in a
\* document cache, and no row of the table is of such a document.
C23_PaywalledFilteredOut ==
  /\ \A sl \in Slugs : raw[sl] # Unknown => ~raw[sl].pay
  /\ \A i \in DOMAIN csv : ~web[csv[i].url].pay

\* C24: a first MLReadyScraper run over a listing page with two candidates,
\* one whose request fails and one answered 200 with an article text long
\* enough, ends with a table of exactly one row, the row of the answered
\* candidate.
C24_EndToEnd ==
  (/\ prog = "ml" /\ pc = "done" /\ runs = 1
   /\ listing[1].up /\ Len(listing[1].urls) = 2
   /\ \E u, v \in Urls :
        /\ {u, v} = {listing[1].urls[1], listing[1].urls[2]}
        /\ web[u] \in PageKinds /\ ~web[u].up
        /\ web[v] = Page(TRUE, TRUE, TRUE, TRUE, NoMeta, FALSE))
    => (Len(csv) = 1 /\ web[csv[1].url].up)

(***************************************************************************)
(* Properties of the overpotential extractors                              *)
(***************************************************************************)

L250 == Lit(<<2, 5, 0>>, <<>>)
L028 == Lit(<<0>>, <<2, 8>>)

\* the numbers of the text
Mentions(text) == {p \in DOMAIN text : text[p].k = "num"}

\* the candidates of a text whose numbers are whole numbers of millivolts:
\* those within 10..2000 mV
InBand(text) ==
  {Val100(text[p].lit) : p \in {p \in Mentions(text) :
      10 * 100 <= Val100(text[p].lit) /\ Val100(text[p].lit) <= 2000 * 100}}

\* C25: for a text that opens with "overpotential" and goes on, within one
\* stretch of 200 characters, with several whole numbers of millivolts, the
\* value extracted by Parser.find_overpotential and by
\* MLReadyParser.extract_numeric_value is the least of the candidates within
\* the band, in whatever order they stand.
C25_MinimumOfCandidates ==
  \A e \in extracted :
    (/\ e.text # <<>> /\ e.text[1] = KOver
     /\ \A p \in DOMAIN e.text : e.text[p] # Gap
     /\ \A p \in Mentions(e.text) : e.text[p].unit = "mV" /\ e.text[p].lit.f = <<>>
     /\ Cardinality(InBand(e.text)) >= 2)
      => (e.parser = Min(InBand(e.text)) /\ e.ml = Min(InBand(e.text)))

\* C26: for a text that contains "η = 0.28 V" the extracted overpotential is
\* 280.0 mV.
C26_VoltsToMillivolts ==
  \A e \in extracted :
    (\E p \in DOMAIN e.text :
       e.text[p] = KEta /\ p < Len(e.text) /\ e.text[p + 1] = Num(L028, "V"))
      => (e.parser = 280 * 100 /\ e.ml = 280 * 100)

\* C27: the overpotential each extractor reports is None or lies within
\* 10..2000 mV.
C27_PlausibilityBand ==
  \A e \in extracted :
    \A v \in {e.parser, e.ml, e.html} :
      v = Null \/ (10 * 100 <= v /\ v <= 2000 * 100)

\* "overpotential of 250 mV" stands in the text
HasOverpotentialOf250(text) ==
  \E p \in DOMAIN text :
    text[p] = KOver /\ p < Len(text) /\ text[p + 1] = Num(L250, "mV")

\* C28 as stated: for a text that contains "overpotential of 250 mV",
\* whatever else it contains, the extracted overpotential is 250.0 mV.
C28_AlwaysTheStatedValue ==
  \A e \in extracted :
    HasOverpotentialOf250(e.text) => (e.parser = 250 * 100 /\ e.ml = 250 * 100)

\* C28 amended: for a text that contains "overpotential of 250 mV" and no
\* other digit, the overpotential extracted by Parser.find_overpotential and
\* by MLReadyParser.extract_numeric_value is 250.0 mV.
C28_TheOnlyNumber ==
  \A e \in extracted :
    (HasOverpotentialOf250(e.text) /\ Cardinality(Mentions(e.text)) = 1)
      => (e.parser = 250 * 100 /\ e.ml = 250 * 100)

\* C28 witness: a text of three items with "overpotential of 250 mV" as its
\* only number has given 250.0 with both extractors
C28_Witness ==
  \E e \in extracted :
    /\ Len(e.text) = 3 /\ HasOverpotentialOf250(e.text)
    /\ Cardinality(Mentions(e.text)) = 1
    /\ e.parser = 250 * 100 /\ e.ml = 250 * 100

(***************************************************************************)
(* Properties of the entity extractors                                     *)
(***************************************************************************)

\* the first keyword of the list, in the order of the list, that the text
\* holds between two characters that are not of a word, whatever the case
FirstWholeWord(text, keywords) ==
  LET t == lower_text(text)
      at(w, i) == /\ StartsAt(t, i, w)
                  /\ (i = 1 \/ t[i - 1] \notin WordChars \/ w[1] \notin WordChars)
                  /\ (i + Len(w) > Len(t) \/ t[i + Len(w)] \notin WordChars
                        \/ w[Len(w)] \notin WordChars)
      found == {k \in DOMAIN keywords :
                  LET w == lower_text(keywords[k]) IN \E i \in DOMAIN t : at(w, i)}
  IN  IF found = {} THEN None ELSE keywords[First(found)]

\* candidate holds a keyword of the list, whatever the case
HoldsKeyword(candidate, keywords) ==
  LET c == lower_text(candidate)
  IN  \E k \in DOMAIN keywords :
        LET w == lower_text(keywords[k]) IN \E i \in DOMAIN c : StartsAt(c, i, w)

\* the first span the patterns captured, in the order of the patterns and
\* then of the text, that holds a keyword once trimmed; None without one
FirstValidSpan(matches, keywords) ==
  LET spans == matches[1] \o matches[2]
      good == {i \in DOMAIN spans : HoldsKeyword(strip(spans[i]), keywords)}
  IN  IF good = {} THEN None ELSE strip(spans[First(good)])

KeywordsOf(fn) ==
  IF fn = "find_catalyst" THEN CATALYST_KEYWORDS ELSE SUBSTRATE_KEYWORDS

\* C29: for every text, the electrolyte the extractor produces is null or
\* the first token of ELECTROLYTE_KEYWORDS, in the order of the list, that
\* occurs in the text; no other span of the text is returned.
C29_ClosedVocabulary ==
  \A n \in named :
    n.fn = "find_electrolyte" =>
      n.out = None \/ n.out = FirstWholeWord(n.text, ELECTROLYTE_KEYWORDS)

\* C30: find_catalyst and find_substrate return the first span captured by
\* a structural pattern that holds a keyword of the vocabulary, trimmed of
\* whitespace; without such a span, the first keyword, in the order of the
\* vocabulary, that occurs in the text as a whole word; and null only when
\* no keyword occurs as a whole word. A result that is not null holds a
\* keyword of the vocabulary (the case of the letters set aside, as in the
\* validation).
C30_TwoTiers ==
  \A n \in named :
    n.fn \in {"find_catalyst", "find_substrate"} =>
      LET keywords == KeywordsOf(n.fn)
          span == FirstValidSpan(n.matches, keywords)
          word == FirstWholeWord(n.text, keywords)
      IN  /\ n.out = (IF span # None THEN span ELSE word)
          /\ n.out # None => HoldsKeyword(n.out, keywords)
          /\ n.out # None => n.out = strip(n.out)

\* a text whose first captured span holds no keyword, whose second does
\* and has blanks to trim, and in which another keyword is a whole word
C30_Witness ==
  \E n \in named :
    /\ n.fn = "find_catalyst"
    /\ Len(n.matches[1]) = 1 /\ Len(n.matches[2]) = 1
    /\ ~HoldsKeyword(n.matches[1][1], CATALYST_KEYWORDS)
    /\ HoldsKeyword(n.matches[2][1], CATALYST_KEYWORDS)
    /\ n.matches[2][1] # strip(n.matches[2][1])
    /\ n.out = strip(n.matches[2][1])
    /\ FirstWholeWord(n.text, CATALYST_KEYWORDS) \notin {None, n.out}

(***************************************************************************)
(* Properties of the identifier mapping                                    *)
(***************************************************************************)

\* C31: the mapping from a source identifier to the file name is one-to-one:
\* two different identifiers never get the same file name.
C31_OneToOne ==
  \A x, y \in called :
    (x.fn = "safe_filename_from_doi" /\ y.fn = "safe_filename_from_doi"
       /\ x.arg # y.arg) => x.out # y.out

(***************************************************************************)
(* Properties of the delays                                                *)
(***************************************************************************)

\* C32: every request of a make_request call, first attempt or retry, comes
\* right after a random delay of its own, drawn from
\* [0.7 * REQUEST_DELAY, 1.3 * REQUEST_DELAY]: as many delays as requests
\* have been taken at every point of the call, and the delay taken before
\* the last request lies in the interval.
C32_DelayBeforeEveryRequest ==
  Calling =>
    /\ mr.delays = mr.requests
    /\ mr.requests > 0 =>
         (7 * REQUEST_DELAY <= 10 * mr.slept /\ 10 * mr.slept <= 13 * REQUEST_DELAY)

\* a third request, after a rate-limit answer and a failed connection, that
\* came after the shortest delay
C32_Witness ==
  /\ Calling /\ who = "ml"
  /\ mr.resps = <<429, ConnErr, 200>>
  /\ mr.requests = 3 /\ mr.delays = 3
  /\ 10 * mr.slept = 7 * REQUEST_DELAY

(***************************************************************************)
(* Properties of the listing extraction                                    *)
(***************************************************************************)

\* the URLs selector s yields in doc, one per accepted link, in document order
Yield(doc, s) ==
  LET links == select(doc, s)
      good == SelectIdx(links, {i \in DOMAIN links : href_accepted(links[i].href)}, 1)
  IN  [i \in DOMAIN good |-> full_url(good[i].href)]

\* C33: extract_article_urls_from_search returns the URLs of the first
\* selector, in the order of the list, that yields any, and none of a later
\* selector; no URL is returned twice and the URLs are in the order of their
\* first occurrence; the result is empty only when no selector yields a URL.
C33_FirstSelectorWins ==
  \A c \in called :
    c.fn = "extract_article_urls_from_search" =>
      LET yielding == {s \in DOMAIN Selectors : Yield(c.arg, s) # <<>>}
      IN  /\ (yielding = {}) = (c.out = <<>>)
          /\ \A i, j \in DOMAIN c.out : i # j => c.out[i] # c.out[j]
          /\ yielding # {} =>
               LET y == Yield(c.arg, CHOOSE s \in yielding : \A r \in yielding : s <= r)
               IN  c.out = SelectIdx(y, {i \in DOMAIN y : \A j \in 1..(i - 1) : y[j] # y[i]}, 1)

\* a document whose first link is selected by the second selector and whose
\* second link, another article, only by later ones
C33_Witness ==
  \E c \in called :
    /\ c.fn = "extract_article_urls_from_search"
    /\ Len(c.arg) = 2
    /\ Yield(c.arg, 1) = <<>>
    /\ Yield(c.arg, 2) = <<"https://www.nature.com/articles/a">>
    /\ Yield(c.arg, 3) = <<"https://www.nature.com/articles/b">>
    /\ c.out = <<"https://www.nature.com/articles/a">>

(***************************************************************************)
(* Properties of the pattern order                                         *)
(***************************************************************************)

\* the number the p-th overpotential pattern captures first in text, as a
\* position of the text; 0 when the pattern does not match
FirstMatch(text, p) ==
  CASE p = 1 -> FirstAfter(text, "overpotential")
    [] p = 2 -> FirstAfter(text, "eta")
    [] p = 3 -> FirstEtaEquals(text)

\* C34: extract_numeric_value returns the first match of the first pattern,
\* in the order of the list, that has a match; a later pattern decides only
\* when no earlier pattern matches, and the result is None when no pattern
\* matches. (Every capture of (\d+\.?\d*) parses as a float.)
C34_FirstPatternWins ==
  \A c \in called :
    c.fn = "extract_numeric_value" =>
      LET matching == {p \in 1..3 : FirstMatch(c.arg, p) # 0}
      IN  /\ (matching = {}) = (c.out = Null)
          /\ \A p \in matching :
               (\A r \in matching : p <= r)
                 => c.out = Val100(c.arg[FirstMatch(c.arg, p)].lit)

\* a text in which the second pattern matches first a number that stands
\* before the one the first pattern captures, and differs from it
C34_Witness ==
  \E c \in called :
    /\ c.fn = "extract_numeric_value"
    /\ FirstMatch(c.arg, 1) # 0 /\ FirstMatch(c.arg, 2) # 0
    /\ FirstMatch(c.arg, 2) < FirstMatch(c.arg, 1)
    /\ c.arg[FirstMatch(c.arg, 2)].lit # c.arg[FirstMatch(c.arg, 1)].lit
    /\ c.out = Val100(c.arg[FirstMatch(c.arg, 1)].lit)

(***************************************************************************)
(* Properties of resuming                                                  *)
(***************************************************************************)

\* C35: on a listing page whose candidates all have their identifier in the
\* persisted table, every candidate is reported as already processed with
\* no request and no change of what the source was seen to serve, and after
\* the last of them the run asks for the next listing page while it is under
\* the page limit.
C35_ProcessedPageSucceeds ==
  [][(/\ prog = "ml" /\ pc = "cand" /\ RunStep
      /\ \A i \in DOMAIN cands : cands[i].slug \in Ids(csv))
     => (/\ last'.url = cands[idx] /\ last'.outcome = "already" /\ last'.requests = 0
         /\ web' = web /\ raw' = raw /\ csv' = csv
         /\ IF idx < Len(cands)
              THEN pc' = "cand" /\ idx' = idx + 1 /\ page' = page
              ELSE IF page < MaxPages
                THEN pc' = "page" /\ page' = page + 1
                ELSE pc' = "final")]_vars

\* C35 witness: the run is about to ask for listing page 2 after a page 1 of
\* two candidates that were both in the table; neither document was asked for
C35_Witness ==
  /\ prog = "ml" /\ pc = "page" /\ page = 2
  /\ Len(cands) = 2
  /\ \A i \in DOMAIN cands : cands[i].slug \in Ids(csv) /\ web[cands[i]] = Unknown
  /\ last.url = cands[2] /\ last.outcome = "already" /\ last.requests = 0

\* C36: a candidate step that ends in failure (no response, a page that is
\* not an article, no record from the parser) leaves self.data and the
\* persisted table as they were.
C36_FailureChangesNoTable ==
  [][(/\ prog = "ml" /\ pc = "cand" /\ RunStep
      /\ last'.outcome \in CandFailures)
     => (data' = data /\ csv' = csv)]_vars

\* C36 witness: a candidate has just failed in the parser, after its page was
\* fetched and stored, while self.data holds records and the table holds two
\* rows of one identifier, which a save would have merged
C36_Witness ==
  /\ prog = "ml" /\ pc \in {"cand", "page", "final"}
  /\ last.outcome = "noparse" /\ last.requests > 0
  /\ raw[last.url.slug] # Unknown
  /\ data # <<>>
  /\ Len(csv) = 2 /\ csv[1].doi = csv[2].doi

(***************************************************************************)
(* Properties of the batched save                                          *)
(***************************************************************************)

\* the records of self.data whose identifier is not in the persisted table
Unflushed == {i \in DOMAIN data : WriteCell(data[i].doi) \notin Ids(csv)}

\* C37: at every point of a run of NatureRequestsScraper fewer than 5
\* records of self.data are missing from the persisted table, and none is
\* once run() has completed.
C37_BatchBound ==
  prog = "nr" =>
    /\ pc \in {"page", "cand", "final"} => Cardinality(Unflushed) < SaveBatch
    /\ pc = "done" => Unflushed = {}

====
